---- MODULE Spec2Model ----
(***************************************************************************)
(* ATestRunner: the task queue, the definition chain of group(), run() and *)
(* the drain loop (#processQueue), the single-test executor (#executeTest) *)
(* with its race against the timeout timer, and #report.                   *)
(*                                                                         *)
(* One step of the model is one run-to-completion segment of the JS event  *)
(* loop or a finer piece of it: a declaration call, a job of the           *)
(* definition chain, one iteration of the drain loop up to its await, the  *)
(* continuation after an await, the settlement of a test operation, the    *)
(* firing of a timeout timer.                                              *)
(*                                                                         *)
(* Environment: declarations are issued while no run() is draining (the    *)
(* body of a group may still declare while run() awaits the definition     *)
(* chain), and run() calls do not overlap.                                 *)
(***************************************************************************)
EXTENDS Integers, Sequences, FiniteSets, TLC

\* ---------------------------------------------------------------- bounds
MaxTasks == 2
MaxGroups == 2
MaxRuns == 2

\* ---------------------------------------------------------------- state
VARIABLES
  queue,                \* #queue: the declared tasks, in push order
  definitionChain,      \* #definitionChain: gists of the chained group jobs not yet finished
  chainState,           \* state of the chain's head job: "idle" | "body" | "rejected"
  groupCalls,           \* number of group() calls so far (the gist of a group is its call number)
  onlyFailed,           \* public field onlyFailed
  finalVerdict,         \* #finalVerdict
  inGroup,              \* #inGroup
  currentGroupVerdict,  \* #currentGroupVerdict
  pc,                   \* position of run(): "idle" | "awaitChain" | "loop" | "awaitTask" | "awaitGroup" | "done" | "rejected"
  runs,                 \* number of run() calls so far
  index,                \* the drain loop's position in the queue (1-based; the entry being or about to be processed)
  promiseGroups,        \* promiseGroups[last]: queue indices of the buffered result promises
  promises,             \* per queue entry, this run's result promise and operation
  log,                  \* this run's calls on the reporter and dispatched events, in order
  settled,              \* observer: queue indices in the order in which this run's result promises settled
  consumed,             \* observer: per queue entry, how many times a drain has executed it (all runs)
  handed                \* observer: the verdicts handed to #report so far (all runs)

\* One call of #executeTest, followed on its own with the clock and the timer.
VARIABLES
  timeout,              \* public field timeout: the runner's default test timeout
  payload,              \* the payload #executeTest was called with
  declaration,          \* observer: the arguments of the test() call that pushed it
  now,                  \* the clock
  timer,                \* the setTimeout timer behind timeoutPromise
  execution,            \* executionPromise
  result,               \* what the call of #executeTest has returned
  invoked               \* observer: how many times testFn has been called

executorVars == <<timeout, payload, declaration, now, timer, execution, result, invoked>>

\* spyOn(obj, methodName) on one method slot of one object, followed on its own.
VARIABLES
  method,               \* obj[methodName]
  spies,                \* the spies created so far: closure variables and handle fields
  history,              \* observer: the invocations obj[methodName](...args) made by the program
  returned,             \* what the last invocation returned or threw
  last                  \* observer: the last call the program made, and what it returned

spyVars == <<method, spies, history, returned, last>>

\* One call equal(a, b), followed on its own.
VARIABLES
  heap,                 \* the objects that exist: prototype, keys or entries, contents
  objA,                 \* the first argument
  objB,                 \* the second argument
  outcome               \* what the call returned or threw

equalVars == <<heap, objA, objB, outcome>>

\* The output setter, followed on its own.
VARIABLES
  output,               \* #output: 'console' or the element results are dispatched on
  reporter,             \* #reporter
  document,             \* the elements a selector can find
  resultEventName,      \* public field resultEventName
  assigned              \* observer: the last assignment runner.output = value, and whether it threw

outputVars == <<output, reporter, document, resultEventName, assigned>>

\* One call when(expression, timeoutMs, checkIntervalMs), followed on its own.
VARIABLES
  expression,           \* what the expression yields, evaluation by evaluation
  timeoutMs,            \* argument timeoutMs
  checkIntervalMs,      \* argument checkIntervalMs
  elapsed,              \* Date.now() - startTime
  phase,                \* where the call is: in an evaluation, in wait(), or settled
  wakeAt,               \* when the timer of wait(checkIntervalMs) is due
  observed,             \* observer: the evaluations made, with their start time and result
  answer                \* what the promise returned by when() settled with

whenVars == <<expression, timeoutMs, checkIntervalMs, elapsed, phase, wakeAt, observed, answer>>

utilityVars == <<spyVars, equalVars, outputVars, whenVars>>

vars == <<queue, definitionChain, chainState, groupCalls, onlyFailed, finalVerdict, inGroup,
          currentGroupVerdict, pc, runs, index, promiseGroups, promises, log, settled,
          consumed, handed, executorVars, utilityVars>>

schedulerVars == <<queue, definitionChain, chainState, groupCalls, onlyFailed, finalVerdict,
                   inGroup, currentGroupVerdict, pc, runs, index, promiseGroups, promises, log,
                   settled, consumed, handed>>

declVars == <<queue, promises, consumed>>
chainVars == <<definitionChain, chainState, groupCalls>>
runnerVars == <<finalVerdict, inGroup, currentGroupVerdict>>
drainVars == <<runs, index, promiseGroups, log, settled>>

\* ---------------------------------------------------------------- values
Bad == {"fail", "error"}

\* A queue entry. by and after are observers. by: 0 for an entry declared by the
\* program outside any group body, g for an entry pushed by the chained job of the
\* g-th group() call or declared while its body callback was running. after: for an
\* entry declared outside any group body, the number of group() calls issued before it.
Task(type, gist, testFn, verdict, by) ==
  [type |-> type, gist |-> gist, testFn |-> testFn, verdict |-> verdict, by |-> by,
   after |-> IF by = 0 THEN groupCalls ELSE 0]

\* A test operation, by what it does when the executor resolves it:
\*   "eq"    settles synchronously with a value equal to the expected one
\*   "ne"    settles synchronously with a value not equal to the expected one
\*   "throw" throws synchronously when invoked
\*   "async" yields a pending value that later resolves (equal or not), rejects, or never settles
TestFns == {"eq", "ne", "throw", "async"}

Ev(ev, idx, verdict, total) == [ev |-> ev, idx |-> idx, verdict |-> verdict, total |-> total]

NoPromise == [op |-> "idle", res |-> "none", result |-> "none", timedOut |-> FALSE]

IsBracket(t) == t.type \in {"group_start", "group_end"}

NumTasks == Cardinality({i \in 1..Len(queue) : ~IsBracket(queue[i])})

\* ---------------------------------------------------------------- declarations
\* pc is "done" or "rejected" from the return of run() until the caller's next call
\* on the runner.
Returned(p) == IF p \in {"done", "rejected"} THEN "idle" ELSE p

\* A declaration call can be issued: no drain is in progress.
CanDeclare ==
  \/ pc \in {"idle", "done", "rejected"}
  \/ pc = "awaitChain" /\ chainState = "body"

\* Who is declaring: the body callback of the chain's head job while it is running.
declaredBy == IF chainState = "body" THEN Head(definitionChain) ELSE 0

push(t) ==
  /\ queue' = Append(queue, t)
  /\ promises' = Append(promises, NoPromise)
  /\ consumed' = Append(consumed, 0)

test(fn) ==
  /\ CanDeclare
  /\ NumTasks < MaxTasks
  /\ push(Task("test", 0, fn, "none", declaredBy))
  /\ pc' = Returned(pc)
  /\ UNCHANGED <<chainVars, onlyFailed, runnerVars, drainVars, handed>>
  /\ UNCHANGED <<executorVars, utilityVars>>

info ==
  /\ CanDeclare
  /\ NumTasks < MaxTasks
  /\ push(Task("info", 0, "none", "none", declaredBy))
  /\ pc' = Returned(pc)
  /\ UNCHANGED <<chainVars, onlyFailed, runnerVars, drainVars, handed>>
  /\ UNCHANGED <<executorVars, utilityVars>>

skip ==
  /\ CanDeclare
  /\ NumTasks < MaxTasks
  /\ push(Task("skip", 0, "eq", "skip", declaredBy))
  /\ pc' = Returned(pc)
  /\ UNCHANGED <<chainVars, onlyFailed, runnerVars, drainVars, handed>>
  /\ UNCHANGED <<executorVars, utilityVars>>

handleError ==
  /\ CanDeclare
  /\ NumTasks < MaxTasks
  /\ push(Task("test", 0, "errorObject", "error", declaredBy))
  /\ pc' = Returned(pc)
  /\ UNCHANGED <<chainVars, onlyFailed, runnerVars, drainVars, handed>>
  /\ UNCHANGED <<executorVars, utilityVars>>

\* The caller assigns the public field onlyFailed.
setOnlyFailed(b) ==
  /\ pc \in {"idle", "done", "rejected"}
  /\ onlyFailed # b
  /\ onlyFailed' = b
  /\ pc' = "idle"
  /\ UNCHANGED <<declVars, chainVars, runnerVars, drainVars, handed>>
  /\ UNCHANGED <<executorVars, utilityVars>>

\* group(gist, testsCallback): chains the job onto #definitionChain. A job chained
\* onto a rejected chain never runs.
group ==
  /\ pc \in {"idle", "done", "rejected"}
  /\ groupCalls < MaxGroups
  /\ groupCalls' = groupCalls + 1
  /\ definitionChain' = IF chainState = "rejected" THEN definitionChain
                        ELSE Append(definitionChain, groupCalls + 1)
  /\ pc' = "idle"
  /\ UNCHANGED <<declVars, chainState, onlyFailed, runnerVars, drainVars, handed>>
  /\ UNCHANGED <<executorVars, utilityVars>>

\* Mutant: the jobs are not chained; a job starts while an earlier body is running.
group_start_unchained ==
  /\ pc \in {"idle", "done", "rejected", "awaitChain"}
  /\ definitionChain # <<>>
  /\ \/ /\ chainState = "idle"
        /\ push(Task("group_start", Head(definitionChain), "none", "none", Head(definitionChain)))
        /\ chainState' = "body"
        /\ UNCHANGED definitionChain
     \/ /\ chainState = "body"
        /\ Len(definitionChain) >= 2
        /\ push(Task("group_start", definitionChain[2], "none", "none", definitionChain[2]))
        /\ definitionChain' = <<Head(definitionChain)>> \o Tail(Tail(definitionChain))
        /\ UNCHANGED chainState
  /\ pc' = Returned(pc)
  /\ UNCHANGED <<groupCalls, onlyFailed, runnerVars, drainVars, handed>>
  /\ UNCHANGED <<executorVars, utilityVars>>

\* The chained job starts: pushes the start marker and calls testsCallback.
group_start ==
  /\ pc \in {"idle", "done", "rejected", "awaitChain"}
  /\ chainState = "idle"
  /\ definitionChain # <<>>
  /\ push(Task("group_start", Head(definitionChain), "none", "none", Head(definitionChain)))
  /\ chainState' = "body"
  /\ pc' = Returned(pc)
  /\ UNCHANGED <<definitionChain, groupCalls, onlyFailed, runnerVars, drainVars, handed>>
  /\ UNCHANGED <<executorVars, utilityVars>>

\* testsCallback() has settled with a value: the job pushes the end marker.
group_end ==
  /\ pc \in {"idle", "done", "rejected", "awaitChain"}
  /\ chainState = "body"
  /\ push(Task("group_end", 0, "none", "none", Head(definitionChain)))
  /\ chainState' = "idle"
  /\ definitionChain' = Tail(definitionChain)
  /\ pc' = Returned(pc)
  /\ UNCHANGED <<groupCalls, onlyFailed, runnerVars, drainVars, handed>>
  /\ UNCHANGED <<executorVars, utilityVars>>

\* testsCallback() threw or rejected: the chain is rejected, no end marker is
\* pushed and the jobs chained behind it never run.
group_throw ==
  /\ pc \in {"idle", "done", "rejected", "awaitChain"}
  /\ chainState = "body"
  /\ chainState' = "rejected"
  /\ definitionChain' = <<>>
  /\ pc' = Returned(pc)
  /\ UNCHANGED <<declVars, groupCalls, onlyFailed, runnerVars, drainVars, handed>>
  /\ UNCHANGED <<executorVars, utilityVars>>

\* ---------------------------------------------------------------- executor
\* #executeTask / #executeTest up to its first suspension: the result promise and
\* the operation of task t right after the call. A predetermined verdict is
\* returned without invoking testFn and without a timer; a synchronous operation
\* has settled (value compared, or exception caught) before any timer can fire.
\* res is the verdict of the result, result its actual value.
\* Mutant: every predetermined verdict comes with the placeholder 'Not executed'.
executeTask_notExecuted(t) ==
  IF t.type = "info"
    THEN [op |-> "idle", res |-> "info", result |-> "message", timedOut |-> FALSE]
  ELSE IF t.verdict # "none"
    THEN [op |-> "idle", res |-> t.verdict, result |-> "Not executed", timedOut |-> FALSE]
  ELSE IF t.testFn = "eq"
    THEN [op |-> "done", res |-> "pass", result |-> "equalValue", timedOut |-> FALSE]
  ELSE IF t.testFn = "ne"
    THEN [op |-> "done", res |-> "fail", result |-> "otherValue", timedOut |-> FALSE]
  ELSE IF t.testFn = "throw"
    THEN [op |-> "done", res |-> "error", result |-> "thrown", timedOut |-> FALSE]
  ELSE [op |-> "running", res |-> "pending", result |-> "none", timedOut |-> FALSE]

executeTask(t) ==
  IF t.type = "info"
    THEN [op |-> "idle", res |-> "info", result |-> "message", timedOut |-> FALSE]
  ELSE IF t.verdict # "none"
    THEN [op |-> "idle", res |-> t.verdict,
          result |-> IF t.verdict = "error" THEN t.testFn ELSE "Not executed",
          timedOut |-> FALSE]
  ELSE IF t.testFn = "eq"
    THEN [op |-> "done", res |-> "pass", result |-> "equalValue", timedOut |-> FALSE]
  ELSE IF t.testFn = "ne"
    THEN [op |-> "done", res |-> "fail", result |-> "otherValue", timedOut |-> FALSE]
  ELSE IF t.testFn = "throw"
    THEN [op |-> "done", res |-> "error", result |-> "thrown", timedOut |-> FALSE]
  ELSE [op |-> "running", res |-> "pending", result |-> "none", timedOut |-> FALSE]

\* Mutant: the operation's value replaces a result the timer has already produced.
operation_resolves_overwrites(i, v) ==
  /\ i \in 1..Len(promises)
  /\ promises[i].op = "running"
  /\ promises' = [promises EXCEPT ![i] =
       [op |-> "done", res |-> v,
        result |-> IF v = "pass" THEN "equalValue" ELSE "otherValue",
        timedOut |-> @.timedOut]]
  /\ settled' = IF promises[i].res = "pending" THEN Append(settled, i) ELSE settled
  /\ UNCHANGED <<queue, consumed, chainVars, onlyFailed, runnerVars, pc, runs, index,
                 promiseGroups, log, handed>>
  /\ UNCHANGED <<executorVars, utilityVars>>

\* The pending value of a running operation resolves with a value: executionPromise
\* wins the race if the result is still pending; otherwise the settlement is ignored.
operation_resolves(i, v) ==
  /\ i \in 1..Len(promises)
  /\ promises[i].op = "running"
  /\ promises' = [promises EXCEPT ![i] =
       [op |-> "done", res |-> IF @.res = "pending" THEN v ELSE @.res,
        result |-> IF @.res # "pending" THEN @.result
                   ELSE IF v = "pass" THEN "equalValue" ELSE "otherValue",
        timedOut |-> @.timedOut]]
  /\ settled' = IF promises[i].res = "pending" THEN Append(settled, i) ELSE settled
  /\ UNCHANGED <<queue, consumed, chainVars, onlyFailed, runnerVars, pc, runs, index,
                 promiseGroups, log, handed>>
  /\ UNCHANGED <<executorVars, utilityVars>>

\* The pending value rejects: caught by #executeTest, verdict 'error'.
operation_rejects(i) ==
  /\ i \in 1..Len(promises)
  /\ promises[i].op = "running"
  /\ promises' = [promises EXCEPT ![i] =
       [op |-> "done", res |-> IF @.res = "pending" THEN "error" ELSE @.res,
        result |-> IF @.res = "pending" THEN "reason" ELSE @.result,
        timedOut |-> @.timedOut]]
  /\ settled' = IF promises[i].res = "pending" THEN Append(settled, i) ELSE settled
  /\ UNCHANGED <<queue, consumed, chainVars, onlyFailed, runnerVars, pc, runs, index,
                 promiseGroups, log, handed>>
  /\ UNCHANGED <<executorVars, utilityVars>>

\* The timeout timer fires while the result is pending: timeoutPromise rejects and
\* wins the race; the operation itself keeps running.
timer_fires(i) ==
  /\ i \in 1..Len(promises)
  /\ promises[i].res = "pending"
  /\ promises' = [promises EXCEPT ![i] =
       [op |-> @.op, res |-> "error", result |-> "timeoutError", timedOut |-> TRUE]]
  /\ settled' = Append(settled, i)
  /\ UNCHANGED <<queue, consumed, chainVars, onlyFailed, runnerVars, pc, runs, index,
                 promiseGroups, log, handed>>
  /\ UNCHANGED <<executorVars, utilityVars>>

\* ---------------------------------------------------------------- reporting
\* Mutant: only an assertion mismatch fails the suite.
report_failOnly(st, i, v) ==
  [fv  |-> IF v = "fail" THEN "fail" ELSE st.fv,
   cgv |-> IF v \in Bad /\ inGroup THEN "fail" ELSE st.cgv,
   log |-> IF onlyFailed /\ v = "pass"
           THEN Append(st.log, Ev("suppressed", i, v, 0))
           ELSE Append(st.log, Ev("report", i, v, 0))]

\* Mutant: onlyFailed suppresses info messages along with passed tests.
report_suppressesInfo(st, i, v) ==
  [fv  |-> IF v \in Bad THEN "fail" ELSE st.fv,
   cgv |-> IF v \in Bad /\ inGroup THEN "fail" ELSE st.cgv,
   log |-> IF onlyFailed /\ v \in {"pass", "info"}
           THEN Append(st.log, Ev("suppressed", i, v, 0))
           ELSE Append(st.log, Ev("report", i, v, 0))]

\* #report(result) for the result of queue entry i with verdict v, on the
\* state st = [fv: #finalVerdict, cgv: #currentGroupVerdict, log].
report(st, i, v) ==
  [fv  |-> IF v \in Bad THEN "fail" ELSE st.fv,
   cgv |-> IF v \in Bad /\ inGroup THEN "fail" ELSE st.cgv,
   log |-> IF onlyFailed /\ v = "pass"
           THEN Append(st.log, Ev("suppressed", i, v, 0))
           ELSE Append(st.log, Ev("report", i, v, 0))]

\* for (const result of results) this.#report(result)
RECURSIVE reportEach(_, _)
reportEach(st, results) ==
  IF results = <<>> THEN st
  ELSE reportEach(report(st, Head(results), promises[Head(results)].res), Tail(results))

\* Mutant: the batch is reported in the order in which the promises settled.
processGroupResults_bySettlement(st, buffer) ==
  reportEach(st, SelectSeq(settled, LAMBDA i : \E k \in 1..Len(buffer) : buffer[k] = i))

\* #processGroupResults: after Promise.all, #report of each result in buffer order.
processGroupResults(st, buffer) == reportEach(st, buffer)

\* Promise.all(promises) has fulfilled: every buffered result promise has settled.
PromiseAll(buffer) == \A k \in 1..Len(buffer) : promises[buffer[k]].res # "pending"

notifyProgress(l, loaded, total) == Append(l, Ev("progress", loaded, "none", total))

Verdicts(buffer) == {promises[buffer[k]].res : k \in 1..Len(buffer)}

\* ---------------------------------------------------------------- run()
\* run() is called: it awaits #definitionChain.
run ==
  /\ pc \in {"idle", "done", "rejected"}
  /\ runs < MaxRuns
  /\ runs' = runs + 1
  /\ pc' = "awaitChain"
  /\ log' = <<>>
  /\ settled' = <<>>
  /\ promises' = [i \in 1..Len(queue) |-> NoPromise]
  /\ UNCHANGED <<queue, consumed, chainVars, onlyFailed, runnerVars, index, promiseGroups,
                 handed>>
  /\ UNCHANGED <<executorVars, utilityVars>>

\* The awaited chain is rejected: run() rejects before draining anything.
run_rejects ==
  /\ pc = "awaitChain"
  /\ chainState = "rejected"
  /\ pc' = "rejected"
  /\ UNCHANGED <<declVars, chainVars, onlyFailed, runnerVars, runs, index, promiseGroups,
                 log, settled, handed>>
  /\ UNCHANGED <<executorVars, utilityVars>>

\* Mutant: every run starts from a fresh suite verdict.
run_drains_resetVerdict ==
  /\ pc = "awaitChain"
  /\ chainState = "idle"
  /\ definitionChain = <<>>
  /\ log' = notifyProgress(log, 0, Len(queue))
  /\ index' = 1
  /\ promiseGroups' = <<>>
  /\ pc' = "loop"
  /\ finalVerdict' = "pass"
  /\ UNCHANGED <<declVars, chainVars, onlyFailed, inGroup, currentGroupVerdict, runs,
                 settled, handed>>
  /\ UNCHANGED <<executorVars, utilityVars>>

\* The awaited chain has fulfilled: progress (0, total), then #processQueue starts
\* with a fresh promiseGroups = [[]].
run_drains ==
  /\ pc = "awaitChain"
  /\ chainState = "idle"
  /\ definitionChain = <<>>
  /\ log' = notifyProgress(log, 0, Len(queue))
  /\ index' = 1
  /\ promiseGroups' = <<>>
  /\ pc' = "loop"
  /\ UNCHANGED <<declVars, chainVars, onlyFailed, runnerVars, runs, settled, handed>>
  /\ UNCHANGED <<executorVars, utilityVars>>

\* Mutant: the group verdict is not reset when a group starts.
processQueue_group_start_noReset ==
  /\ pc = "loop"
  /\ index <= Len(queue)
  /\ queue[index].type = "group_start"
  /\ inGroup' = TRUE
  /\ log' = notifyProgress(Append(log, Ev("groupStart", queue[index].gist, "none", 0)),
                           index, Len(queue))
  /\ index' = index + 1
  /\ UNCHANGED <<declVars, chainVars, onlyFailed, finalVerdict, currentGroupVerdict, pc, runs,
                 promiseGroups, settled, handed>>
  /\ UNCHANGED <<executorVars, utilityVars>>

\* Mutant: a group marker is drained without a progress notification.
processQueue_group_start_noProgress ==
  /\ pc = "loop"
  /\ index <= Len(queue)
  /\ queue[index].type = "group_start"
  /\ inGroup' = TRUE
  /\ currentGroupVerdict' = "pass"
  /\ log' = Append(log, Ev("groupStart", queue[index].gist, "none", 0))
  /\ index' = index + 1
  /\ UNCHANGED <<declVars, chainVars, onlyFailed, finalVerdict, pc, runs, promiseGroups,
                 settled, handed>>
  /\ UNCHANGED <<executorVars, utilityVars>>

\* #processQueue, case 'group_start'.
processQueue_group_start ==
  /\ pc = "loop"
  /\ index <= Len(queue)
  /\ queue[index].type = "group_start"
  /\ inGroup' = TRUE
  /\ currentGroupVerdict' = "pass"
  /\ log' = notifyProgress(Append(log, Ev("groupStart", queue[index].gist, "none", 0)),
                           index, Len(queue))
  /\ index' = index + 1
  /\ UNCHANGED <<declVars, chainVars, onlyFailed, finalVerdict, pc, runs, promiseGroups,
                 settled, handed>>
  /\ UNCHANGED <<executorVars, utilityVars>>

\* #processQueue, case 'group_end': awaits #processGroupResults.
processQueue_group_end ==
  /\ pc = "loop"
  /\ index <= Len(queue)
  /\ queue[index].type = "group_end"
  /\ pc' = "awaitGroup"
  /\ UNCHANGED <<declVars, chainVars, onlyFailed, runnerVars, runs, index, promiseGroups,
                 log, settled, handed>>
  /\ UNCHANGED <<executorVars, utilityVars>>

\* Mutant: groupEnd is emitted before the buffered results are reported.
processQueue_group_reported_endFirst ==
  /\ pc = "awaitGroup"
  /\ PromiseAll(promiseGroups)
  /\ LET st == processGroupResults(
                 [fv |-> finalVerdict, cgv |-> currentGroupVerdict,
                  log |-> Append(log, Ev("groupEnd", index, currentGroupVerdict, 0))],
                 promiseGroups)
     IN /\ finalVerdict' = st.fv
        /\ currentGroupVerdict' = st.cgv
        /\ log' = notifyProgress(st.log, index, Len(queue))
  /\ handed' = handed \cup Verdicts(promiseGroups)
  /\ promiseGroups' = <<>>
  /\ inGroup' = FALSE
  /\ index' = index + 1
  /\ pc' = "loop"
  /\ UNCHANGED <<declVars, chainVars, onlyFailed, runs, settled>>
  /\ UNCHANGED <<executorVars, utilityVars>>

\* Mutant: the buffer is not emptied after the group has been reported.
processQueue_group_reported_noClear ==
  /\ pc = "awaitGroup"
  /\ PromiseAll(promiseGroups)
  /\ LET st == processGroupResults(
                 [fv |-> finalVerdict, cgv |-> currentGroupVerdict, log |-> log],
                 promiseGroups)
     IN /\ finalVerdict' = st.fv
        /\ currentGroupVerdict' = st.cgv
        /\ log' = notifyProgress(Append(st.log, Ev("groupEnd", index, st.cgv, 0)),
                                 index, Len(queue))
  /\ handed' = handed \cup Verdicts(promiseGroups)
  /\ inGroup' = FALSE
  /\ index' = index + 1
  /\ pc' = "loop"
  /\ UNCHANGED <<declVars, chainVars, onlyFailed, runs, promiseGroups, settled>>
  /\ UNCHANGED <<executorVars, utilityVars>>

\* #processGroupResults has returned: the buffer is emptied, groupEnd(verdict).
processQueue_group_reported ==
  /\ pc = "awaitGroup"
  /\ PromiseAll(promiseGroups)
  /\ LET st == processGroupResults(
                 [fv |-> finalVerdict, cgv |-> currentGroupVerdict, log |-> log],
                 promiseGroups)
     IN /\ finalVerdict' = st.fv
        /\ currentGroupVerdict' = st.cgv
        /\ log' = notifyProgress(Append(st.log, Ev("groupEnd", index, st.cgv, 0)),
                                 index, Len(queue))
  /\ handed' = handed \cup Verdicts(promiseGroups)
  /\ promiseGroups' = <<>>
  /\ inGroup' = FALSE
  /\ index' = index + 1
  /\ pc' = "loop"
  /\ UNCHANGED <<declVars, chainVars, onlyFailed, runs, settled>>
  /\ UNCHANGED <<executorVars, utilityVars>>

\* Mutant: every task is awaited, inside a group too.
processQueue_task_alwaysAwait ==
  /\ pc = "loop"
  /\ index <= Len(queue)
  /\ ~IsBracket(queue[index])
  /\ promises' = [promises EXCEPT ![index] = executeTask(queue[index])]
  /\ consumed' = [consumed EXCEPT ![index] = @ + 1]
  /\ settled' = IF executeTask(queue[index]).res # "pending" THEN Append(settled, index)
                ELSE settled
  /\ pc' = "awaitTask"
  /\ UNCHANGED <<promiseGroups, log, index>>
  /\ UNCHANGED <<queue, chainVars, onlyFailed, runnerVars, runs, handed>>
  /\ UNCHANGED <<executorVars, utilityVars>>

\* Mutant: no task is awaited; outside a group the promise is buffered as well and
\* reported at the next group end.
processQueue_task_neverAwait ==
  /\ pc = "loop"
  /\ index <= Len(queue)
  /\ ~IsBracket(queue[index])
  /\ promises' = [promises EXCEPT ![index] = executeTask(queue[index])]
  /\ consumed' = [consumed EXCEPT ![index] = @ + 1]
  /\ settled' = IF executeTask(queue[index]).res # "pending" THEN Append(settled, index)
                ELSE settled
  /\ promiseGroups' = Append(promiseGroups, index)
  /\ log' = notifyProgress(log, index, Len(queue))
  /\ index' = index + 1
  /\ pc' = pc
  /\ UNCHANGED <<queue, chainVars, onlyFailed, runnerVars, runs, handed>>
  /\ UNCHANGED <<executorVars, utilityVars>>

\* Mutant: the exception of a throwing operation escapes the executor and ends the run.
processQueue_task_throwEscapes ==
  /\ pc = "loop"
  /\ index <= Len(queue)
  /\ ~IsBracket(queue[index])
  /\ promises' = [promises EXCEPT ![index] = executeTask(queue[index])]
  /\ consumed' = [consumed EXCEPT ![index] = @ + 1]
  /\ settled' = IF executeTask(queue[index]).res # "pending" THEN Append(settled, index)
                ELSE settled
  /\ IF executeTask(queue[index]).result = "thrown"
     THEN /\ pc' = "rejected"
          /\ UNCHANGED <<promiseGroups, log, index>>
     ELSE IF inGroup
     THEN /\ promiseGroups' = Append(promiseGroups, index)
          /\ log' = notifyProgress(log, index, Len(queue))
          /\ index' = index + 1
          /\ pc' = pc
     ELSE /\ pc' = "awaitTask"
          /\ UNCHANGED <<promiseGroups, log, index>>
  /\ UNCHANGED <<queue, chainVars, onlyFailed, runnerVars, runs, handed>>
  /\ UNCHANGED <<executorVars, utilityVars>>

\* #processQueue, default case (test, info, skip): the task is executed; inside a
\* group its promise is buffered, outside it is awaited.
processQueue_task ==
  /\ pc = "loop"
  /\ index <= Len(queue)
  /\ ~IsBracket(queue[index])
  /\ promises' = [promises EXCEPT ![index] = executeTask(queue[index])]
  /\ consumed' = [consumed EXCEPT ![index] = @ + 1]
  /\ settled' = IF executeTask(queue[index]).res # "pending" THEN Append(settled, index)
                ELSE settled
  /\ IF inGroup
     THEN /\ promiseGroups' = Append(promiseGroups, index)
          /\ log' = notifyProgress(log, index, Len(queue))
          /\ index' = index + 1
          /\ pc' = pc
     ELSE /\ pc' = "awaitTask"
          /\ UNCHANGED <<promiseGroups, log, index>>
  /\ UNCHANGED <<queue, chainVars, onlyFailed, runnerVars, runs, handed>>
  /\ UNCHANGED <<executorVars, utilityVars>>

\* The awaited result of an ungrouped task has arrived: #report, then progress.
processQueue_task_reported ==
  /\ pc = "awaitTask"
  /\ promises[index].res # "pending"
  /\ LET st == report([fv |-> finalVerdict, cgv |-> currentGroupVerdict, log |-> log],
                      index, promises[index].res)
     IN /\ finalVerdict' = st.fv
        /\ currentGroupVerdict' = st.cgv
        /\ log' = notifyProgress(st.log, index, Len(queue))
  /\ handed' = handed \cup {promises[index].res}
  /\ index' = index + 1
  /\ pc' = "loop"
  /\ UNCHANGED <<declVars, chainVars, onlyFailed, inGroup, runs, promiseGroups, settled>>
  /\ UNCHANGED <<executorVars, utilityVars>>

\* Mutant: the loop ends one entry early.
run_completes_early ==
  /\ pc = "loop"
  /\ index >= Len(queue)
  /\ log' = Append(Append(log, Ev("done", 0, finalVerdict, 0)),
                   Ev("complete", 0, finalVerdict, 0))
  /\ pc' = "done"
  /\ UNCHANGED <<declVars, chainVars, onlyFailed, runnerVars, runs, index, promiseGroups,
                 settled, handed>>
  /\ UNCHANGED <<executorVars, utilityVars>>

\* #processQueue has returned: reporter.done(finalVerdict), then #notifyComplete.
run_completes ==
  /\ pc = "loop"
  /\ index > Len(queue)
  /\ log' = Append(Append(log, Ev("done", 0, finalVerdict, 0)),
                   Ev("complete", 0, finalVerdict, 0))
  /\ pc' = "done"
  /\ UNCHANGED <<declVars, chainVars, onlyFailed, runnerVars, runs, index, promiseGroups,
                 settled, handed>>
  /\ UNCHANGED <<executorVars, utilityVars>>

\* ---------------------------------------------------------------- #executeTest in time
MaxTime == 3

\* The settled values of the model: two primitives and one Error object.
Values == {"v1", "v2", "anError"}

\* The functions of the model, by what a call does.
Functions == {"returns_v1", "returns_v2", "returns_anError", "returns_aPromise", "throws"}

\* What can be passed as testFn: a settled value, a pending promise, or a function.
TestFnValues == Values \cup {"aPromise"} \cup Functions

\* typeof testFn === 'function'
isFunction(f) == f \in Functions

\* testFn(): the returned value, or "THROW" for a call that throws.
call(f) ==
  CASE f = "returns_v1" -> "v1"
    [] f = "returns_v2" -> "v2"
    [] f = "returns_anError" -> "anError"
    [] f = "returns_aPromise" -> "aPromise"
    [] f = "throws" -> "THROW"

\* testResult instanceof Error
instanceofError(v) == v = "anError"

\* this.equal(a, b) on the values of the model: primitives and one object reference,
\* all decided by the first comparison of equal (x === y).
equalValues(a, b) == a = b

\* The values the caller can have assigned to the public field timeout, and the
\* timeout options of a test, in clock ticks.
RunnerTimeouts == {1, 2}
TimeoutOptions == {0, 2}

\* An options object, by its own keys that meet a key of the payload: {} for a key it
\* does not have, {value} for a key it has. options = {} has none of them.
NoOptions == [gist |-> {}, testFn |-> {}, expect |-> {}, verdict |-> {}, timeout |-> {}]

\* { key: v, ...options }: an own key of options replaces the value written before it.
spread(v, option) == IF option = {} THEN v ELSE CHOOSE x \in option : TRUE

\* The payload test(gist, testFn, expect, options) pushes:
\* { gist, testFn, expect, line, ...options }. A verdict of "none" and a timeout of {}
\* stand for a payload without the key.
testPayload(gist, testFn, expect, options) ==
  [gist |-> spread(gist, options.gist),
   testFn |-> spread(testFn, options.testFn),
   expect |-> spread(expect, options.expect),
   verdict |-> spread("none", options.verdict),
   timeout |-> options.timeout]

\* The payload skip(gist, testFn, expect) pushes.
skipPayload(testFn, expect) ==
  [gist |-> "g1", testFn |-> testFn, expect |-> expect, verdict |-> "skip", timeout |-> {}]

\* The payload handleError(error) pushes.
handleErrorPayload(error) ==
  [gist |-> "g1", testFn |-> error, expect |-> "null", verdict |-> "error", timeout |-> {}]

\* if (predefinedVerdict): the payload has a verdict and it is not a falsy value.
hasPredefinedVerdict(p) == p.verdict \notin {"none", ""}

\* The arguments of a call test(gist, testFn, expect, options).
Declaration(gist, testFn, expect, options) ==
  [gist |-> gist, testFn |-> testFn, expect |-> expect, options |-> options]
NoDeclaration == Declaration("none", "none", "none", NoOptions)

\* The options objects of the model: each key absent or present, the verdict key with
\* a verdict of the runner, another string or the empty string.
OptionsObjects ==
  [gist : {{}, {"g2"}}, testFn : {{}, {"returns_v2"}}, expect : {{}, {"v2"}},
   verdict : {{}, {"skip"}, {"passed"}, {""}},
   timeout : {{}} \cup {{d} : d \in TimeoutOptions}]

Declarations ==
  {Declaration("g1", f, e, o) :
     f \in TestFnValues, e \in {"v1", "anError"}, o \in OptionsObjects}

Payloads ==
  {testPayload("g1", f, e, [NoOptions EXCEPT !.timeout = o]) :
     f \in TestFnValues, e \in {"v1", "anError"}, o \in {{}} \cup {{d} : d \in TimeoutOptions}}
    \cup {skipPayload(f, e) : f \in TestFnValues, e \in {"v1", "anError"}}
    \cup {handleErrorPayload("anError")}

NotCalled == [verdict |-> "none", result |-> "none"]
Pending == [verdict |-> "pending", result |-> "none"]
NoTimer == [state |-> "none", duration |-> 0, deadline |-> 0]
NoExecution == [state |-> "none", verdict |-> "none", result |-> "none"]

\* const testTimeout = timeout ?? this.timeout
testTimeout(p) == IF p.timeout = {} THEN timeout ELSE CHOOSE d \in p.timeout : TRUE

\* new Error(`Test timed out after ${testTimeout}ms`)
TimeoutError(d) == "Test timed out after " \o ToString(d) \o "ms"

\* executionPromise after the synchronous part of the async function and the
\* microtasks that follow it: rejected by a throwing call, fulfilled with an 'error'
\* result for an Error value, fulfilled with the comparison of a settled value, or
\* pending on the awaited promise.
executionPromise(p) ==
  LET testResult == IF isFunction(p.testFn) THEN call(p.testFn) ELSE p.testFn
  IN  IF testResult = "THROW"
        THEN [state |-> "rejected", verdict |-> "error", result |-> "thrown"]
      ELSE IF instanceofError(testResult)
        THEN [state |-> "fulfilled", verdict |-> "error", result |-> testResult]
      ELSE IF testResult = "aPromise"
        THEN [state |-> "pending", verdict |-> "none", result |-> "none"]
      ELSE [state |-> "fulfilled",
            verdict |-> IF equalValues(testResult, p.expect) THEN "pass" ELSE "fail",
            result |-> testResult]

\* Mutant: a predetermined verdict does not stop the executor from running the operation.
executeTest_runsPredetermined ==
  /\ result = NotCalled
  /\ timer' = [state |-> "armed", duration |-> testTimeout(payload),
               deadline |-> now + testTimeout(payload)]
  /\ invoked' = IF isFunction(payload.testFn) THEN invoked + 1 ELSE invoked
  /\ execution' = executionPromise(payload)
  /\ result' = IF hasPredefinedVerdict(payload)
               THEN [verdict |-> payload.verdict,
                     result |-> IF payload.verdict = "error" THEN payload.testFn
                                ELSE "Not executed"]
               ELSE IF executionPromise(payload).state = "pending" THEN Pending
               ELSE [verdict |-> executionPromise(payload).verdict,
                     result |-> executionPromise(payload).result]
  /\ UNCHANGED <<timeout, payload, declaration, now, schedulerVars, utilityVars>>

\* #executeTest(payload) is called. A predetermined verdict is returned at once.
\* Otherwise the timer is set and the operation started; an execution that settles
\* without a pending promise wins the race before any timer callback can run.
executeTest ==
  /\ result = NotCalled
  /\ IF hasPredefinedVerdict(payload)
     THEN /\ result' = [verdict |-> payload.verdict,
                        result |-> IF payload.verdict = "error" THEN payload.testFn
                                   ELSE "Not executed"]
          /\ UNCHANGED <<timer, execution, invoked>>
     ELSE /\ timer' = [state |-> "armed", duration |-> testTimeout(payload),
                       deadline |-> now + testTimeout(payload)]
          /\ invoked' = IF isFunction(payload.testFn) THEN invoked + 1 ELSE invoked
          /\ execution' = executionPromise(payload)
          /\ result' = IF executionPromise(payload).state = "pending" THEN Pending
                       ELSE [verdict |-> executionPromise(payload).verdict,
                             result |-> executionPromise(payload).result]
  /\ UNCHANGED <<timeout, payload, declaration, now, schedulerVars, utilityVars>>

\* The awaited promise resolves with v: the value is compared; the result is returned
\* if the race is still open.
executionPromise_fulfils(v) ==
  /\ execution.state = "pending"
  /\ LET verdict == IF equalValues(v, payload.expect) THEN "pass" ELSE "fail"
     IN /\ execution' = [state |-> "fulfilled", verdict |-> verdict, result |-> v]
        /\ result' = IF result = Pending THEN [verdict |-> verdict, result |-> v] ELSE result
  /\ UNCHANGED <<timeout, payload, declaration, now, timer, invoked, schedulerVars, utilityVars>>

\* The awaited promise rejects: executionPromise rejects, the catch block returns
\* 'error' with the reason if the race is still open.
executionPromise_rejects ==
  /\ execution.state = "pending"
  /\ execution' = [state |-> "rejected", verdict |-> "error", result |-> "reason"]
  /\ result' = IF result = Pending THEN [verdict |-> "error", result |-> "reason"] ELSE result
  /\ UNCHANGED <<timeout, payload, declaration, now, timer, invoked, schedulerVars, utilityVars>>

\* Mutant: the timeout error names the runner's default timeout.
timeoutPromise_rejects_default ==
  /\ timer.state = "armed"
  /\ now >= timer.deadline
  /\ timer' = [timer EXCEPT !.state = "fired"]
  /\ result' = IF result = Pending
               THEN [verdict |-> "error", result |-> TimeoutError(timeout)]
               ELSE result
  /\ UNCHANGED <<timeout, payload, declaration, now, execution, invoked, schedulerVars, utilityVars>>

\* The timer callback runs, not before its delay has elapsed: timeoutPromise rejects,
\* the catch block returns 'error' with the timeout error if the race is still open.
\* The timer is never cleared, so it fires after the race has been decided as well.
timeoutPromise_rejects ==
  /\ timer.state = "armed"
  /\ now >= timer.deadline
  /\ timer' = [timer EXCEPT !.state = "fired"]
  /\ result' = IF result = Pending
               THEN [verdict |-> "error", result |-> TimeoutError(timer.duration)]
               ELSE result
  /\ UNCHANGED <<timeout, payload, declaration, now, execution, invoked, schedulerVars, utilityVars>>

\* Time passes; the model stops the clock at MaxTime unless a timer is still to come due.
clock_advances ==
  /\ now < MaxTime \/ (timer.state = "armed" /\ now < timer.deadline)
  /\ now' = now + 1
  /\ UNCHANGED <<timeout, payload, declaration, timer, execution, result, invoked, schedulerVars, utilityVars>>

\* The return statements of #executeTest: { type: 'test', gist, verdict, result, expect,
\* line }, with gist and expect as destructured from the payload.
resultObject ==
  [gist |-> payload.gist, verdict |-> result.verdict, result |-> result.result,
   expect |-> payload.expect]

\* ---------------------------------------------------------------- spyOn
MaxSpies == 2
MaxCalls == 5
MaxRing == 2
MaxTail == 1
MaxSetSize == 2
MaxBytes == 2

\* A function value or other value, by identity.
Fn(kind, id) == [kind |-> kind, id |-> id]

\* What obj[methodName] can hold apart from a spy's wrapper: the method the object
\* came with, another function the program assigns, a value that is not a function.
originalFn == Fn("original", 0)
otherFn == Fn("other", 0)
notAFunction == Fn("notAFunction", 0)

\* The function spyOn installs for the k-th spy.
wrapper(k) == Fn("wrapper", k)

\* typeof f === 'function'
isCallable(f) == f.kind # "notAFunction"

\* The argument tuples of the model.
ArgTuples == {<<1>>, <<2, 3>>}

\* What the program passes to runs(fn): an ordinary function, a function that throws.
RunsFns == {Fn("runs", 1), Fn("runs", 2)}

NoReturn == [how |-> "none", promise |-> "none", by |-> "none", v |-> 0, args |-> <<>>]

\* f.apply(this, args) for a function that is not a wrapper: the method and the
\* function given to runs() see the arguments; () => value, () => Promise.resolve(value)
\* and () => Promise.reject(error) ignore them.
applyFn(f, args) ==
  CASE f.kind \in {"original", "other"} ->
         [how |-> "return", promise |-> "none", by |-> f.kind, v |-> 0, args |-> args]
    [] f.kind = "runs" /\ f.id = 1 ->
         [how |-> "return", promise |-> "none", by |-> "runs", v |-> 0, args |-> args]
    [] f.kind = "runs" /\ f.id = 2 ->
         [how |-> "throw", promise |-> "none", by |-> "runs", v |-> 0, args |-> args]
    [] f.kind = "returns" ->
         [how |-> "return", promise |-> "none", by |-> "returns", v |-> f.id, args |-> <<>>]
    [] f.kind = "resolves" ->
         [how |-> "return", promise |-> "fulfilled", by |-> "resolves", v |-> f.id, args |-> <<>>]
    [] f.kind = "rejects" ->
         [how |-> "return", promise |-> "rejected", by |-> "rejects", v |-> f.id, args |-> <<>>]

\* Mutant: the wrapper records a call only after its implementation has returned.
RECURSIVE invoke_recordsOnReturn(_, _, _)
invoke_recordsOnReturn(f, args, sp) ==
  IF f.kind = "wrapper"
  THEN LET r == invoke_recordsOnReturn(sp[f.id].currentImplementation, args, sp)
       IN IF r.returned.how = "throw" THEN r
          ELSE [spies |-> [r.spies EXCEPT ![f.id].callCount = @ + 1,
                                          ![f.id].calls = Append(@, args)],
                returned |-> r.returned]
  ELSE [spies |-> sp, returned |-> applyFn(f, args)]

\* f(...args) on the spies sp: a wrapper counts the call, records the arguments and
\* applies its spy's current implementation (which may be the wrapper of an earlier
\* spy); any other function is applied.
RECURSIVE invoke(_, _, _)
invoke(f, args, sp) ==
  IF f.kind = "wrapper"
  THEN invoke(sp[f.id].currentImplementation, args,
              [sp EXCEPT ![f.id].callCount = @ + 1, ![f.id].calls = Append(@, args)])
  ELSE [spies |-> sp, returned |-> applyFn(f, args)]

\* An entry of the history: what the program did, on which spy (0: none), with which
\* arguments or implementation, and what the method slot held just before.
Event(op, spy, args, f) == [op |-> op, spy |-> spy, args |-> args, f |-> f, target |-> method]

Last(op, threw, spy) == [op |-> op, threw |-> threw, spy |-> spy, seq |-> last.seq + 1]

\* Mutant: the wrapper is installed before the method is tested for being a function.
spyOn_installsFirst ==
  /\ last.seq < MaxCalls
  /\ Len(spies) < MaxSpies
  /\ IF ~isCallable(method)
     THEN /\ last' = Last("spyOn", TRUE, 0)
          /\ method' = wrapper(Len(spies) + 1)
          /\ UNCHANGED spies
     ELSE /\ spies' = Append(spies, [originalMethod |-> method, currentImplementation |-> method,
                                     callCount |-> 0, calls |-> <<>>])
          /\ method' = wrapper(Len(spies) + 1)
          /\ last' = Last("spyOn", FALSE, Len(spies) + 1)
  /\ history' = Append(history, Event("spyOn", 0, <<>>, method))
  /\ UNCHANGED <<returned, schedulerVars, executorVars, equalVars, outputVars, whenVars>>

\* spyOn(obj, methodName): throws if obj[methodName] is not a function; otherwise
\* creates the spy and installs its wrapper.
spyOn ==
  /\ last.seq < MaxCalls
  /\ Len(spies) < MaxSpies
  /\ IF ~isCallable(method)
     THEN /\ last' = Last("spyOn", TRUE, 0)
          /\ UNCHANGED <<method, spies>>
     ELSE /\ spies' = Append(spies, [originalMethod |-> method, currentImplementation |-> method,
                                     callCount |-> 0, calls |-> <<>>])
          /\ method' = wrapper(Len(spies) + 1)
          /\ last' = Last("spyOn", FALSE, Len(spies) + 1)
  /\ history' = Append(history, Event("spyOn", 0, <<>>, method))
  /\ UNCHANGED <<returned, schedulerVars, executorVars, equalVars, outputVars, whenVars>>

\* The program calls obj[methodName](...args).
obj_method_called(args) ==
  /\ last.seq < MaxCalls
  /\ isCallable(method)
  /\ LET r == invoke(method, args, spies)
     IN /\ spies' = r.spies
        /\ returned' = r.returned
        /\ last' = Last("call", r.returned.how = "throw", 0)
  /\ history' = Append(history, Event("call", 0, args, method))
  /\ UNCHANGED <<method, schedulerVars, executorVars, equalVars, outputVars, whenVars>>

\* The program assigns obj[methodName] itself.
obj_method_assigned(f) ==
  /\ last.seq < MaxCalls
  /\ method # f
  /\ method' = f
  /\ last' = Last("assign", FALSE, 0)
  /\ history' = Append(history, Event("assign", 0, <<>>, f))
  /\ UNCHANGED <<spies, returned, schedulerVars, executorVars, equalVars, outputVars, whenVars>>

\* Mutant: restore() puts back the method the object came with.
spy_restore_toFirst(k) ==
  /\ last.seq < MaxCalls
  /\ k \in 1..Len(spies)
  /\ method' = originalFn
  /\ last' = Last("restore", FALSE, k)
  /\ history' = Append(history, Event("restore", k, <<>>, method))
  /\ UNCHANGED <<spies, returned, schedulerVars, executorVars, equalVars, outputVars, whenVars>>

\* spy.restore() on the k-th spy: obj[methodName] = originalMethod.
spy_restore(k) ==
  /\ last.seq < MaxCalls
  /\ k \in 1..Len(spies)
  /\ method' = spies[k].originalMethod
  /\ last' = Last("restore", FALSE, k)
  /\ history' = Append(history, Event("restore", k, <<>>, method))
  /\ UNCHANGED <<spies, returned, schedulerVars, executorVars, equalVars, outputVars, whenVars>>

\* Mutant: an override starts the spy's record afresh.
spy_override_resets(k, f) ==
  /\ last.seq < MaxCalls
  /\ k \in 1..Len(spies)
  /\ spies' = [spies EXCEPT ![k].currentImplementation = f, ![k].callCount = 0,
                            ![k].calls = <<>>]
  /\ last' = Last(f.kind, FALSE, k)
  /\ history' = Append(history, Event("override", k, <<>>, f))
  /\ UNCHANGED <<method, returned, schedulerVars, executorVars, equalVars, outputVars, whenVars>>

\* spy.runs(fn), spy.returns(value), spy.resolves(value), spy.rejects(error) on the
\* k-th spy, with f the implementation the call builds: currentImplementation = f;
\* return this.
spy_override(k, f) ==
  /\ last.seq < MaxCalls
  /\ k \in 1..Len(spies)
  /\ spies' = [spies EXCEPT ![k].currentImplementation = f]
  /\ last' = Last(f.kind, FALSE, k)
  /\ history' = Append(history, Event("override", k, <<>>, f))
  /\ UNCHANGED <<method, returned, schedulerVars, executorVars, equalVars, outputVars, whenVars>>

spy_runs(k, fn) == spy_override(k, fn)
spy_returns(k, value) == spy_override(k, Fn("returns", value))
spy_resolves(k, value) == spy_override(k, Fn("resolves", value))
spy_rejects(k, error) == spy_override(k, Fn("rejects", error))


\* ---------------------------------------------------------------- equal(a, b)
\* A JavaScript value: a primitive, or a reference to an object of the heap (v is then
\* its address).  The number NaN has a tag of its own.
Val(t, v) == [t |-> t, v |-> v]

undefined == Val("undefined", 0)
null == Val("null", 0)
NaN == Val("NaN", 0)
Number(n) == Val("number", n)
String(n) == Val("string", n)         \* the decimal numeral of n as a string
Boolean(n) == Val("boolean", n)
Ref(n) == Val("object", n)

\* typeof x
typeof(x) ==
  CASE x.t = "null" -> "object"
    [] x.t = "NaN" -> "number"
    [] OTHER -> x.t

\* x == y: as x === y, but null and undefined are equal to each other, and a number
\* and a string are compared after converting the string.
looseEquals(x, y) ==
  \/ x.t # "NaN" /\ x.t = y.t /\ x.v = y.v
  \/ {x.t, y.t} \subseteq {"null", "undefined"}
  \/ {x.t, y.t} = {"number", "string"} /\ x.v = y.v

\* x === y: same type and same value, objects by reference; NaN differs from itself.
strictEquals(x, y) == x.t # "NaN" /\ x.t = y.t /\ x.v = y.v

\* An object of the heap.  keys: an Object's own enumerable property names, or a Map's
\* keys, in insertion order (empty for an Array and a Set); vals: the property values,
\* the Map's values, the Array's elements or the Set's elements, in the same order.
Obj(proto, keys, vals) == [proto |-> proto, keys |-> keys, vals |-> vals]

\* Object.prototype.hasOwnProperty.call(o, key), or o.has(key) of a Map
has(o, key) == \E i \in 1..Len(o.keys) : o.keys[i] = key

\* o[key], or o.get(key) of a Map
get(o, key) == o.vals[CHOOSE i \in 1..Len(o.keys) : o.keys[i] = key]

\* yValues.splice(index, 1)
splice(yValues, idx) ==
  [i \in 1..(Len(yValues) - 1) |-> IF i < idx THEN yValues[i] ELSE yValues[i + 1]]

\* new Map(): the visited map, as the set of its entries; no object has a partner yet.
NoneVisited == {}

\* What a call of _equal hands back: its result, and the visited map as it left it.
Ret(r, visited) == [r |-> r, visited |-> visited]

\* The cycle check without effect: no pair is ever taken as seen.
seenBefore_never(visited, x, y) == FALSE

\* visited.has(x) && visited.get(x) === y
seenBefore(visited, x, y) == [x |-> x.v, y |-> y.v] \in visited

\* visited.set(x, y)
set(visited, x, y) == {e \in visited : e.x # x.v} \cup {[x |-> x.v, y |-> y.v]}

RECURSIVE _equal(_, _, _, _, _)
RECURSIVE areArraysEqual(_, _, _, _, _, _)
RECURSIVE areMapsEqual(_, _, _, _, _, _)
RECURSIVE areObjectsEqual(_, _, _, _, _, _)
RECURSIVE areSetsEqual(_, _, _, _, _, _)
RECURSIVE findIndex(_, _, _, _, _, _)

\* An Array slot that holds no element (as the middle one of [1, , 3]): it counts for
\* length, and reading it gives undefined.
hole == Val("hole", 0)

\* x[i] of an Array
elementAt(o, i) == IF o.vals[i] = hole THEN undefined ELSE o.vals[i]

\* x instanceof ArrayBuffer || ArrayBuffer.isView(x).  An ArrayBuffer holds its bytes in
\* vals; a view (typed array or DataView) holds buffer, byteOffset and byteLength.
isView(o) == o.proto \in {"Uint8Array", "DataView"}
isBufferLike(o) == o.proto = "ArrayBuffer" \/ isView(o)

\* x.byteLength
byteLength(o) == IF isView(o) THEN get(o, "byteLength").v ELSE Len(o.vals)

\* new Uint8Array(x.buffer, x.byteOffset, x.byteLength): the viewed bytes.  An ArrayBuffer
\* has no buffer property, and the constructor given undefined makes an array of length 0.
Uint8Array(h, o) ==
  IF isView(o)
  THEN SubSeq(h[get(o, "buffer").v].vals,
              get(o, "byteOffset").v + 1, get(o, "byteOffset").v + get(o, "byteLength").v)
  ELSE <<>>

\* view[i], i counted from 0: undefined beyond the array's length
viewAt(view, i) == IF i < Len(view) THEN view[i + 1] ELSE undefined

\* if (x.byteLength !== y.byteLength) return false;
\* for (let i = 0; i < x.byteLength; i++) if (view1[i] !== view2[i]) return false; return true;
areTypedArraysEqual(h, x, y) ==
  IF byteLength(h[x]) # byteLength(h[y]) THEN "false"
  ELSE IF \A i \in 0..(byteLength(h[x]) - 1) :
            strictEquals(viewAt(Uint8Array(h, h[x]), i), viewAt(Uint8Array(h, h[y]), i))
       THEN "true"
       ELSE "false"

\* for (let i = 0; i < x.length; i++) if (!_equal(x[i], y[i])) return false; return true;
areArraysEqual(h, x, y, i, visited, path) ==
  IF i > Len(h[x].vals) THEN Ret("true", visited)
  ELSE LET c == _equal(h, elementAt(h[x], i), elementAt(h[y], i), visited, path)
       IN IF c.r # "true" THEN c
          ELSE areArraysEqual(h, x, y, i + 1, c.visited, path)

\* for (const [key, value] of x) if (!y.has(key) || !_equal(value, y.get(key))) return false;
\* return true;
areMapsEqual(h, x, y, i, visited, path) ==
  IF i > Len(h[x].keys) THEN Ret("true", visited)
  ELSE IF ~has(h[y], h[x].keys[i]) THEN Ret("false", visited)
  ELSE LET c == _equal(h, h[x].vals[i], get(h[y], h[x].keys[i]), visited, path)
       IN IF c.r # "true" THEN c
          ELSE areMapsEqual(h, x, y, i + 1, c.visited, path)

\* for (const key of keysX) if (!hasOwnProperty.call(y, key) || !_equal(x[key], y[key]))
\* return false; return true;
areObjectsEqual(h, x, y, i, visited, path) ==
  IF i > Len(h[x].keys) THEN Ret("true", visited)
  ELSE IF ~has(h[y], h[x].keys[i]) THEN Ret("false", visited)
  ELSE LET c == _equal(h, h[x].vals[i], get(h[y], h[x].keys[i]), visited, path)
       IN IF c.r # "true" THEN c
          ELSE areObjectsEqual(h, x, y, i + 1, c.visited, path)

\* yValues.findIndex(yValue => _equal(value, yValue)), from position j on; idx 0 is -1.
findIndex(h, value, yValues, j, visited, path) ==
  IF j > Len(yValues) THEN [idx |-> 0, r |-> "false", visited |-> visited]
  ELSE LET c == _equal(h, value, yValues[j], visited, path)
       IN IF c.r = "true" THEN [idx |-> j, r |-> "true", visited |-> c.visited]
          ELSE IF c.r = "RangeError" THEN [idx |-> 0, r |-> "RangeError", visited |-> c.visited]
          ELSE findIndex(h, value, yValues, j + 1, c.visited, path)

\* for (const value of x) { index = yValues.findIndex(...); if (index === -1) return false;
\* yValues.splice(index, 1); } return true;
areSetsEqual(h, x, yValues, i, visited, path) ==
  IF i > Len(h[x].vals) THEN Ret("true", visited)
  ELSE LET f == findIndex(h, h[x].vals[i], yValues, 1, visited, path)
       IN IF f.r # "true" THEN Ret(f.r, f.visited)
          ELSE areSetsEqual(h, x, splice(yValues, f.idx), i + 1, f.visited, path)

\* function _equal(x, y) with the closure variable visited.  path holds the calls that
\* are still running above this one, each with the visited map it started from: the
\* function is deterministic, so a call that has the arguments and the visited map of a
\* call still running never returns, and the recursion ends when the engine's call stack
\* is exhausted, with a RangeError thrown out of equal (nothing catches it).
_equal(h, x, y, visited, path) ==
  IF strictEquals(x, y) THEN Ret("true", visited)
  ELSE IF x = null \/ typeof(x) # "object" \/ y = null \/ typeof(y) # "object"
  THEN Ret("false", visited)
  ELSE IF seenBefore(visited, x, y) THEN Ret("true", visited)
  ELSE LET seen == set(visited, x, y)
           here == [x |-> x.v, y |-> y.v, visited |-> visited]
           deeper == path \cup {here}
           X == h[x.v]
           Y == h[y.v]
       IN IF here \in path THEN Ret("RangeError", seen)
          ELSE IF X.proto # Y.proto THEN Ret("false", seen)
          ELSE IF isBufferLike(X) THEN Ret(areTypedArraysEqual(h, x.v, y.v), seen)
          ELSE IF Len(X.vals) # Len(Y.vals) THEN Ret("false", seen)
          ELSE CASE X.proto = "Map" -> areMapsEqual(h, x.v, y.v, 1, seen, deeper)
                 [] X.proto = "Set" -> areSetsEqual(h, x.v, Y.vals, 1, seen, deeper)
                 [] X.proto = "Array" -> areArraysEqual(h, x.v, y.v, 1, seen, deeper)
                 [] OTHER -> areObjectsEqual(h, x.v, y.v, 1, seen, deeper)

\* equal(a, b) with the objects of heap h: "true", "false", or "RangeError" thrown.
equalOn(h, x, y) == _equal(h, x, y, NoneVisited, {}).r

NoOutcome == "none"

\* The call under observation returns or throws.
equal ==
  /\ outcome = NoOutcome
  /\ outcome' = equalOn(heap, objA, objB)
  /\ UNCHANGED <<heap, objA, objB, schedulerVars, executorVars, spyVars, outputVars, whenVars>>


\* ---------------------------------------------------------------- set output
MaxAssignments == 3

\* A value assigned to output: the string 'console', a selector string '#id', an
\* HTMLElement, or something else (null, a number).
Target(kind, id) == [kind |-> kind, id |-> id]

console == Target("console", 0)
NoTarget == Target("undefined", 0)
Elements == {Target("element", id) : id \in {1, 2}}
OutputValues ==
  {console, Target("other", 0)} \cup Elements \cup {Target("selector", id) : id \in {1, 2}}

\* document.querySelector(value): the element of the document the selector matches.
querySelector(value) ==
  IF Target("element", value.id) \in document THEN Target("element", value.id) ELSE NoTarget

\* new ConsoleReporter() / new DomEventReporter(target, this.resultEventName)
ConsoleReporter == [class |-> "ConsoleReporter", target |-> NoTarget, eventName |-> 0]
DomEventReporter(target, eventName) ==
  [class |-> "DomEventReporter", target |-> target, eventName |-> eventName]

\* The constructor's fields: #output = 'console', #reporter = new ConsoleReporter().
InitOutput ==
  /\ output = console
  /\ reporter = ConsoleReporter
  /\ document = {}
  /\ resultEventName = 1
  /\ assigned = [value |-> console, threw |-> FALSE, seq |-> 0]

\* The setter as a plain store: the value is kept and resolved later.
set_output_deferred(value) ==
  /\ assigned.seq < MaxAssignments
  /\ output' = value
  /\ assigned' = [value |-> value, threw |-> FALSE, seq |-> assigned.seq + 1]
  /\ UNCHANGED <<reporter, document, resultEventName, schedulerVars, executorVars, spyVars, equalVars, whenVars>>

\* runner.output = value
set_output(value) ==
  /\ assigned.seq < MaxAssignments
  /\ LET target == CASE value.kind = "element" -> value
                     [] value.kind = "selector" -> querySelector(value)
                     [] OTHER -> NoTarget
     IN IF value = console
        THEN /\ reporter' = ConsoleReporter
             /\ output' = console
             /\ assigned' = [value |-> value, threw |-> FALSE, seq |-> assigned.seq + 1]
        ELSE IF target # NoTarget
        THEN /\ reporter' = DomEventReporter(target, resultEventName)
             /\ output' = target
             /\ assigned' = [value |-> value, threw |-> FALSE, seq |-> assigned.seq + 1]
        ELSE /\ assigned' = [value |-> value, threw |-> TRUE, seq |-> assigned.seq + 1]
             /\ UNCHANGED <<output, reporter>>
  /\ UNCHANGED <<document, resultEventName, schedulerVars, executorVars, spyVars, equalVars, whenVars>>

\* The page gains or loses an element.
document_changes(e) ==
  /\ document' = (IF e \in document THEN document \ {e} ELSE document \cup {e})
  /\ UNCHANGED <<output, reporter, resultEventName, assigned, schedulerVars, executorVars,
                 spyVars, equalVars, whenVars>>

\* runner.resultEventName = name
set_resultEventName(name) ==
  /\ resultEventName' = name
  /\ UNCHANGED <<output, reporter, document, assigned, schedulerVars, executorVars,
                 spyVars, equalVars, whenVars>>


\* ---------------------------------------------------------------- when
MaxElapsed == 4
MaxEvaluations == 4

\* What one evaluation of the expression settles with: a value (0 is falsy, 1 and 2 are
\* truthy), or an error thrown or rejected with.
Out(kind, v) == [kind |-> kind, v |-> v]

NoOut == Out("none", 0)
Outs == {Out("value", v) : v \in {0, 1, 2}} \cup {Out("error", 1)}

\* if (result)
truthy(o) == o.kind = "value" /\ o.v # 0

\* The expressions, by what they give at each evaluation: a function may give something
\* else at every call; a promise or a plain value gives the same every time.
Expressions == [1..MaxEvaluations -> Outs]

\* No call under observation.
InitWhenIdle ==
  /\ expression = [n \in 1..MaxEvaluations |-> Out("value", 0)]
  /\ timeoutMs = 0
  /\ checkIntervalMs = 1
  /\ elapsed = 0
  /\ phase = "idle"
  /\ wakeAt = 0
  /\ observed = <<>>
  /\ answer = NoOut

\* One turn of the loop up to its await: the deadline test, then evaluation() is called.
iterate ==
  /\ phase' = (IF elapsed >= timeoutMs THEN "final" ELSE "evaluating")
  /\ observed' = Append(observed, [at |-> elapsed, final |-> elapsed >= timeoutMs, out |-> NoOut])

\* when(expression, timeoutMs, checkIntervalMs) is called: startTime is taken and the
\* first turn of the loop runs.
when ==
  /\ phase = "idle"
  /\ iterate
  /\ UNCHANGED <<expression, timeoutMs, checkIntervalMs, elapsed, wakeAt, answer>>
  /\ UNCHANGED <<schedulerVars, executorVars, spyVars, equalVars, outputVars>>

\* Mutant: an evaluation that fails is taken as a falsy result and polling goes on.
evaluation_settles_swallows ==
  /\ phase \in {"evaluating", "final"}
  /\ LET o == expression[Len(observed)]
     IN /\ observed' = [observed EXCEPT ![Len(observed)].out = o]
        /\ IF phase = "final" \/ truthy(o)
           THEN /\ phase' = (IF o.kind = "error" THEN "rejected" ELSE "resolved")
                /\ answer' = o
                /\ wakeAt' = wakeAt
           ELSE /\ phase' = "waiting"
                /\ wakeAt' = elapsed + checkIntervalMs
                /\ answer' = answer
  /\ UNCHANGED <<expression, timeoutMs, checkIntervalMs, elapsed>>
  /\ UNCHANGED <<schedulerVars, executorVars, spyVars, equalVars, outputVars>>

\* await evaluation() settles: on the deadline's turn its result is returned (or its error
\* thrown); otherwise an error is rethrown, a truthy result returned, and on a falsy
\* result wait(checkIntervalMs) is called.
evaluation_settles ==
  /\ phase \in {"evaluating", "final"}
  /\ LET o == expression[Len(observed)]
     IN /\ observed' = [observed EXCEPT ![Len(observed)].out = o]
        /\ IF o.kind = "error"
           THEN /\ phase' = "rejected"
                /\ answer' = o
                /\ wakeAt' = wakeAt
           ELSE IF phase = "final" \/ truthy(o)
           THEN /\ phase' = "resolved"
                /\ answer' = o
                /\ wakeAt' = wakeAt
           ELSE /\ phase' = "waiting"
                /\ wakeAt' = elapsed + checkIntervalMs
                /\ answer' = answer
  /\ UNCHANGED <<expression, timeoutMs, checkIntervalMs, elapsed>>
  /\ UNCHANGED <<schedulerVars, executorVars, spyVars, equalVars, outputVars>>

\* The timer of wait(checkIntervalMs) fires, not before it is due, and the next turn of
\* the loop runs.
wait_resolves ==
  /\ phase = "waiting"
  /\ elapsed >= wakeAt
  /\ iterate
  /\ UNCHANGED <<expression, timeoutMs, checkIntervalMs, elapsed, wakeAt, answer>>
  /\ UNCHANGED <<schedulerVars, executorVars, spyVars, equalVars, outputVars>>

\* Time passes; the model stops the clock at MaxElapsed unless a timer is still to come due.
time_passes ==
  /\ phase \in {"evaluating", "final", "waiting"}
  /\ elapsed < MaxElapsed \/ (phase = "waiting" /\ elapsed < wakeAt)
  /\ elapsed' = elapsed + 1
  /\ UNCHANGED <<expression, timeoutMs, checkIntervalMs, phase, wakeAt, observed, answer>>
  /\ UNCHANGED <<schedulerVars, executorVars, spyVars, equalVars, outputVars>>

\* ---------------------------------------------------------------- Init
InitScheduler ==
  /\ queue = <<>>
  /\ definitionChain = <<>>
  /\ chainState = "idle"
  /\ groupCalls = 0
  /\ onlyFailed = FALSE
  /\ finalVerdict = "pass"
  /\ inGroup = FALSE
  /\ currentGroupVerdict = "pass"
  /\ pc = "idle"
  /\ runs = 0
  /\ index = 1
  /\ promiseGroups = <<>>
  /\ promises = <<>>
  /\ log = <<>>
  /\ settled = <<>>
  /\ consumed = <<>>
  /\ handed = {}

\* The executor variables while the scheduler is followed: no call under observation.
InitExecutor ==
  /\ timeout = 2
  /\ payload = handleErrorPayload("anError")
  /\ declaration = NoDeclaration
  /\ now = 0
  /\ timer = NoTimer
  /\ execution = NoExecution
  /\ result = NotCalled
  /\ invoked = 0

\* The utility variables while the scheduler or the executor is followed.
InitUtilities ==
  /\ method = originalFn
  /\ spies = <<>>
  /\ history = <<>>
  /\ returned = NoReturn
  /\ last = [op |-> "none", threw |-> FALSE, spy |-> 0, seq |-> 0]
  /\ heap = <<>>
  /\ objA = undefined
  /\ objB = undefined
  /\ outcome = NoOutcome
  /\ InitOutput
  /\ InitWhenIdle

Init == InitScheduler /\ InitExecutor /\ InitUtilities

Next ==
  \/ \E fn \in TestFns : test(fn)
  \/ info
  \/ skip
  \/ handleError
  \/ \E b \in BOOLEAN : setOnlyFailed(b)
  \/ group
  \/ group_start
  \/ group_end
  \/ group_throw
  \/ run
  \/ run_rejects
  \/ run_drains
  \/ processQueue_group_start
  \/ processQueue_group_end
  \/ processQueue_group_reported
  \/ processQueue_task
  \/ processQueue_task_reported
  \/ run_completes
  \/ \E i \in 1..Len(queue) : \E v \in {"pass", "fail"} : operation_resolves(i, v)
  \/ \E i \in 1..Len(queue) : operation_rejects(i)
  \/ \E i \in 1..Len(queue) : timer_fires(i)

Spec == Init /\ [][Next]_vars

\* The event loop runs every continuation that is ready and every due timer callback,
\* and every group body callback that has been called settles, by returning or by
\* throwing. Nothing is assumed about the operations of the tests.
SpecLive ==
  /\ Spec
  /\ WF_vars(group_start)
  /\ WF_vars(group_end \/ group_throw)
  /\ WF_vars(run_rejects)
  /\ WF_vars(run_drains)
  /\ WF_vars(processQueue_group_start)
  /\ WF_vars(processQueue_group_end)
  /\ WF_vars(processQueue_group_reported)
  /\ WF_vars(processQueue_task)
  /\ WF_vars(processQueue_task_reported)
  /\ WF_vars(run_completes)
  /\ WF_vars(\E i \in 1..Len(queue) : timer_fires(i))

\* One call of #executeTest on a payload a declaration has pushed, at time 0, with the
\* runner's timeout as the caller has set it.
InitExecuteTest ==
  /\ InitScheduler
  /\ InitUtilities
  /\ timeout \in RunnerTimeouts
  /\ payload \in Payloads
  /\ declaration = NoDeclaration
  /\ now = 0
  /\ timer = NoTimer
  /\ execution = NoExecution
  /\ result = NotCalled
  /\ invoked = 0

\* One call of test(gist, testFn, expect, options), then #executeTest on the payload
\* it has pushed.
InitTest ==
  /\ InitScheduler
  /\ InitUtilities
  /\ timeout \in RunnerTimeouts
  /\ declaration \in Declarations
  /\ payload = testPayload(declaration.gist, declaration.testFn, declaration.expect,
                           declaration.options)
  /\ now = 0
  /\ timer = NoTimer
  /\ execution = NoExecution
  /\ result = NotCalled
  /\ invoked = 0

NextExecuteTest ==
  \/ executeTest
  \/ \E v \in Values : executionPromise_fulfils(v)
  \/ executionPromise_rejects
  \/ timeoutPromise_rejects
  \/ clock_advances

SpecExecuteTest == InitExecuteTest /\ [][NextExecuteTest]_vars

SpecTest == InitTest /\ [][NextExecuteTest]_vars

\* The program works on one method slot of one object, which holds a function or not.
InitSpyOn ==
  /\ InitScheduler
  /\ InitExecutor
  /\ method \in {originalFn, notAFunction}
  /\ spies = <<>>
  /\ history = <<>>
  /\ returned = NoReturn
  /\ last = [op |-> "none", threw |-> FALSE, spy |-> 0, seq |-> 0]
  /\ heap = <<>>
  /\ objA = undefined
  /\ objB = undefined
  /\ outcome = NoOutcome
  /\ InitOutput
  /\ InitWhenIdle

NextSpyOn ==
  \/ spyOn
  \/ \E args \in ArgTuples : obj_method_called(args)
  \/ \E f \in {otherFn, notAFunction} : obj_method_assigned(f)
  \/ \E k \in 1..MaxSpies : spy_restore(k)
  \/ \E k \in 1..MaxSpies : \E fn \in RunsFns : spy_runs(k, fn)
  \/ \E k \in 1..MaxSpies : \E value \in {1, 2} : spy_returns(k, value)
  \/ \E k \in 1..MaxSpies : spy_resolves(k, 1)
  \/ \E k \in 1..MaxSpies : spy_rejects(k, 1)

SpecSpyOn == InitSpyOn /\ [][NextSpyOn]_vars

\* ---- the arguments equal is followed on
\* Leaf scalars of the object graphs.
Leaves == {1, 2}

\* A chain of t objects leading into a ring of m objects, at addresses base+1 .. base+t+m:
\* every object has a property next (the following object; the last one of the ring points
\* back to the ring's first) and a leaf property v, defined in either order.
Lasso(t, m, leaf, nextFirst, base) ==
  [i \in 1..(t + m) |->
     LET next == Ref(base + (IF i < t + m THEN i + 1 ELSE t + 1))
         v == Number(leaf[i])
     IN IF nextFirst THEN Obj("Object", <<"next", "v">>, <<next, v>>)
                     ELSE Obj("Object", <<"v", "next">>, <<v, next>>)]

Shapes == (0..MaxTail) \X (1..MaxRing)

\* The graphs of the given shapes (chain length, ring length) at addresses from base+1.
Lassos(base, shapes) ==
  UNION {{Lasso(s[1], s[2], leaf, nextFirst, base) :
            leaf \in [1..(s[1] + s[2]) -> Leaves], nextFirst \in BOOLEAN} : s \in shapes}

Input(h, x, y) == [heap |-> h, objA |-> x, objB |-> y]

\* Two object graphs with cycles, compared from the first object of the one to any object.
CyclicInputs(shapes) ==
  UNION {UNION {{Input(l \o r, Ref(1), Ref(k)) : k \in 1..(Len(l) + Len(r))} :
                  r \in Lassos(Len(l), shapes)} : l \in Lassos(0, shapes)}

\* Three arrays [1], [2], [1] and three objects {k: ...} holding the first, the first and
\* the second of them.
Nested ==
  <<Obj("Array", <<>>, <<Number(1)>>), Obj("Array", <<>>, <<Number(2)>>),
    Obj("Array", <<>>, <<Number(1)>>),
    Obj("Object", <<"k">>, <<Ref(1)>>), Obj("Object", <<"k">>, <<Ref(1)>>),
    Obj("Object", <<"k">>, <<Ref(2)>>)>>

\* The sequences without repetition of at most n members of S.
Distinct(S, n) ==
  UNION {{q \in [1..len -> S] : \A i, j \in 1..len : i # j => q[i] # q[j]} : len \in 0..n}

SetElements == {Number(n) : n \in Leaves} \cup {Ref(n) : n \in 1..Len(Nested)}

\* Two Sets of at most n scalars, arrays and objects, in every insertion order.
SetInputs(n) ==
  {Input(Nested \o <<Obj("Set", <<>>, s), Obj("Set", <<>>, t)>>,
         Ref(Len(Nested) + 1), Ref(Len(Nested) + 2)) :
     s, t \in Distinct(SetElements, n)}

MapKeys == {String(1), NaN}

MapValues == {Number(1), Ref(1), Ref(2), Ref(3)}

Maps ==
  UNION {{Obj("Map", keys, vals) : vals \in [1..Len(keys) -> MapValues]} :
           keys \in Distinct(MapKeys, MaxSetSize)}

\* Two Maps from scalar keys to scalars and arrays.
MapInputs ==
  {Input(Nested \o <<x, y>>, Ref(Len(Nested) + 1), Ref(Len(Nested) + 2)) : x, y \in Maps}

Primitives ==
  {undefined, null, NaN, Number(0), Number(1), String(0), String(1), Boolean(0), Boolean(1)}

\* Two scalars, or a scalar and an object.
ScalarInputs ==
  {Input(<<Obj("Object", <<>>, <<>>)>>, x, y) : x, y \in Primitives \cup {Ref(1)}}

\* The containers with at most n entries, each a scalar or undefined; an Array may have
\* empty slots.
Containers(n) ==
  UNION {{Obj("Object", keys, vals) : vals \in [1..Len(keys) -> {undefined, Number(1)}]} :
           keys \in Distinct({"a", "b"}, n)}
  \cup UNION {{Obj("Map", keys, vals) : vals \in [1..Len(keys) -> {undefined, Number(1)}]} :
                 keys \in Distinct(MapKeys, n)}
  \cup UNION {{Obj("Array", <<>>, vals) : vals \in [1..len -> {undefined, Number(1), hole}]} :
                 len \in 0..n}

\* Two containers of the same kind.
ContainerInputs(n) ==
  {in \in {Input(<<x, y>>, Ref(1), Ref(2)) : x, y \in Containers(n)} :
     in.heap[1].proto = in.heap[2].proto}

\* The ArrayBuffers of at most n bytes.
Buffers(n) == UNION {{Obj("ArrayBuffer", <<>>, bytes) : bytes \in [1..len -> {Number(0), Number(1)}]} :
                       len \in 0..n}

\* The views of a kind on the buffer at address b.
Views(h, b) ==
  {Obj(kind, <<"buffer", "byteOffset", "byteLength">>, <<Ref(b), Number(off), Number(len)>>) :
     kind \in {"Uint8Array", "DataView"},
     off \in 0..Len(h[b].vals), len \in 0..Len(h[b].vals)}

\* Two ArrayBuffers, or two views, one on each of two ArrayBuffers.
BufferInputs(n) ==
  UNION {{Input(<<x, y>>, Ref(1), Ref(2))}
         \cup {Input(<<x, y, v, w>>, Ref(3), Ref(4)) :
                 v \in {o \in Views(<<x, y>>, 1) : get(o, "byteOffset").v + byteLength(o) <= Len(x.vals)},
                 w \in {o \in Views(<<x, y>>, 2) : get(o, "byteOffset").v + byteLength(o) <= Len(y.vals)}} :
           <<x, y>> \in Buffers(n) \X Buffers(n)}

InitEqual ==
  /\ InitScheduler
  /\ InitExecutor
  /\ method = originalFn
  /\ spies = <<>>
  /\ history = <<>>
  /\ returned = NoReturn
  /\ last = [op |-> "none", threw |-> FALSE, spy |-> 0, seq |-> 0]
  /\ InitOutput
  /\ InitWhenIdle
  /\ \E in \in ScalarInputs \cup CyclicInputs(Shapes) \cup SetInputs(MaxSetSize) \cup MapInputs
                \cup ContainerInputs(MaxSetSize) \cup BufferInputs(MaxBytes) :
       /\ heap = in.heap
       /\ objA = in.objA
       /\ objB = in.objB
  /\ outcome = NoOutcome

NextEqual == equal

InitSetOutput ==
  /\ InitScheduler
  /\ InitExecutor
  /\ method = originalFn
  /\ spies = <<>>
  /\ history = <<>>
  /\ returned = NoReturn
  /\ last = [op |-> "none", threw |-> FALSE, spy |-> 0, seq |-> 0]
  /\ heap = <<>>
  /\ objA = undefined
  /\ objB = undefined
  /\ outcome = NoOutcome
  /\ InitOutput
  /\ InitWhenIdle

InitWhen ==
  /\ InitScheduler
  /\ InitExecutor
  /\ method = originalFn
  /\ spies = <<>>
  /\ history = <<>>
  /\ returned = NoReturn
  /\ last = [op |-> "none", threw |-> FALSE, spy |-> 0, seq |-> 0]
  /\ heap = <<>>
  /\ objA = undefined
  /\ objB = undefined
  /\ outcome = NoOutcome
  /\ InitOutput
  /\ expression \in Expressions
  /\ timeoutMs \in {0, 2, 3}
  /\ checkIntervalMs \in {1, 2}
  /\ elapsed = 0
  /\ phase = "idle"
  /\ wakeAt = 0
  /\ observed = <<>>
  /\ answer = NoOut

NextWhen ==
  \/ when
  \/ evaluation_settles
  \/ wait_resolves
  \/ time_passes

SpecWhen == InitWhen /\ [][NextWhen]_vars

\* Every evaluation settles, timers fire, and the clock does not stop.
SpecWhenLive ==
  SpecWhen /\ WF_vars(when) /\ WF_vars(evaluation_settles) /\ WF_vars(wait_resolves)
           /\ WF_vars(time_passes)

NextSetOutput ==
  \/ \E value \in OutputValues : set_output(value)
  \/ \E e \in Elements : document_changes(e)
  \/ \E name \in {1, 2} : set_resultEventName(name)

SpecSetOutput == InitSetOutput /\ [][NextSetOutput]_vars

SpecEqual == InitEqual /\ [][NextEqual]_vars

\* The event loop runs every due timer callback and the clock does not stop.
SpecExecuteTestLive ==
  SpecExecuteTest /\ WF_vars(executeTest) /\ WF_vars(timeoutPromise_rejects) /\ WF_vars(clock_advances)

\* ---------------------------------------------------------------- properties
\* Vocabulary of the properties, over the queue positions and this run's log.
IsResult(e) == e.ev \in {"report", "suppressed"}

IsTask(i) == i \in 1..Len(queue) /\ ~IsBracket(queue[i])

ResultEvents(i) == {k \in 1..Len(log) : IsResult(log[k]) /\ log[k].idx = i}

Brackets(i) == {s \in 1..(i - 1) : IsBracket(queue[s])}

LastBracket(i) == IF Brackets(i) = {} THEN 0
                  ELSE CHOOSE s \in Brackets(i) : \A r \in Brackets(i) : r <= s

\* Queue entry i is a task between a group_start and its group_end.
InsideGroup(i) ==
  /\ IsTask(i)
  /\ LastBracket(i) # 0
  /\ queue[LastBracket(i)].type = "group_start"

Ungrouped(i) == IsTask(i) /\ ~InsideGroup(i)

\* The members of the group closed by the group_end at queue position e.
Members(e) == {i \in 1..(e - 1) : InsideGroup(i) /\ \A k \in (i + 1)..(e - 1) : ~IsBracket(queue[k])}

SameGroup(i, j) == InsideGroup(i) /\ InsideGroup(j) /\ LastBracket(i) = LastBracket(j)

Pos(seq, x) == CHOOSE k \in 1..Len(seq) : seq[k] = x

InSeq(seq, x) == \E k \in 1..Len(seq) : seq[k] = x

\* The result promise of j settled before the one of i (this run).
SettledBefore(j, i) ==
  /\ InSeq(settled, j)
  /\ InSeq(settled, i)
  /\ Pos(settled, j) < Pos(settled, i)

Draining == pc \in {"loop", "awaitTask", "awaitGroup", "done"}

Progress == SelectSeq(log, LAMBDA e : e.ev = "progress")

\* C1: within a drain, the results delivered to the reporter follow queue order: of
\* two report() calls, the earlier one is for the task that comes first in the queue.
C1_ReportsFollowQueueOrder ==
  \A a, b \in 1..Len(log) :
    (a < b /\ log[a].ev = "report" /\ log[b].ev = "report") => log[a].idx < log[b].idx

\* A run has completed in which a later task's result settled before an earlier
\* task's result and both were reported.
C1_Witness ==
  /\ pc = "done"
  /\ \E a, b \in 1..Len(log) :
       /\ a < b
       /\ log[a].ev = "report"
       /\ log[b].ev = "report"
       /\ SettledBefore(log[b].idx, log[a].idx)

\* C2: the scheduler never waits on a group member (every drained member has been
\* started, whatever the state of the earlier members); a member's result is handed
\* to #report only once the group_end has been drained; members of a group are
\* reported in buffering (queue) order.
C2_GroupMembersConcurrentReportedInOrder ==
  /\ pc = "awaitTask" => ~InsideGroup(index)
  /\ Draining =>
       \A i \in 1..Len(queue) : (InsideGroup(i) /\ i < index) => promises[i].res # "none"
  /\ \A k \in 1..Len(log) :
       (IsResult(log[k]) /\ InsideGroup(log[k].idx)) =>
         \E e \in (log[k].idx + 1)..(index - 1) : queue[e].type = "group_end"
  /\ \A a, b \in 1..Len(log) :
       (a < b /\ IsResult(log[a]) /\ IsResult(log[b]) /\ SameGroup(log[a].idx, log[b].idx))
         => log[a].idx < log[b].idx

\* Two members of one group, the later-declared one settled first, both pending at
\* the same time before, and the group has been reported.
C2_Witness ==
  \E i, j \in 1..Len(queue) :
    /\ i < j
    /\ SameGroup(i, j)
    /\ queue[i].testFn = "async"
    /\ queue[j].testFn = "async"
    /\ SettledBefore(j, i)
    /\ ResultEvents(i) # {}
    /\ ResultEvents(j) # {}

\* C3: an ungrouped task is executed only after every task before it in the queue
\* has had its result handed to #report, and the only ungrouped task whose result
\* is pending is the one the scheduler is awaiting.
C3_UngroupedSerialized ==
  /\ \A j \in 1..Len(queue) :
       (Ungrouped(j) /\ promises[j].res # "none") =>
         \A i \in 1..(j - 1) : IsTask(i) => ResultEvents(i) # {}
  /\ \A j \in 1..Len(queue) :
       (Ungrouped(j) /\ promises[j].res = "pending") => (pc = "awaitTask" /\ index = j)
  /\ Cardinality({j \in 1..Len(queue) : Ungrouped(j) /\ promises[j].res = "pending"}) <= 1

\* An ungrouped asynchronous test has been reported and the next ungrouped test is
\* being awaited.
C3_Witness ==
  \E i, j \in 1..Len(queue) :
    /\ i < j
    /\ Ungrouped(i)
    /\ Ungrouped(j)
    /\ queue[i].testFn = "async"
    /\ queue[j].testFn = "async"
    /\ ResultEvents(i) # {}
    /\ promises[j].res = "pending"

C5_ConsumedOncePerDeclaration ==
  \A i \in 1..Len(queue) : consumed[i] <= 1

\* C6: the verdict passed to groupEnd is 'fail' iff a member of that group has a
\* result with verdict 'fail' or 'error', and 'pass' otherwise.
C6_GroupVerdict ==
  \A k \in 1..Len(log) :
    log[k].ev = "groupEnd" =>
      log[k].verdict = IF \E i \in Members(log[k].idx) : promises[i].res \in Bad
                       THEN "fail" ELSE "pass"

\* A group with a member is closed with 'pass' after an ungrouped task and an
\* earlier group have failed.
C6_Witness ==
  \E a, b, c \in 1..Len(log) :
    /\ a < c
    /\ b < c
    /\ log[a].ev = "report"
    /\ log[a].verdict \in Bad
    /\ Ungrouped(log[a].idx)
    /\ log[b].ev = "groupEnd"
    /\ log[b].verdict = "fail"
    /\ log[c].ev = "groupEnd"
    /\ log[c].verdict = "pass"

\* C7: the suite verdict starts as 'pass', never changes from 'fail' to 'pass', and
\* is 'fail' in every state in which a fail or error result has been handed to #report.
C7_VerdictMonotonic ==
  /\ finalVerdict = "pass"
  /\ [][finalVerdict = "fail" => finalVerdict' = "fail"]_vars
  /\ [](handed \cap Bad # {} => finalVerdict = "fail")

\* A second run has completed with no fail or error result of its own while the
\* verdict is 'fail' from the first run.
C7_Witness ==
  /\ runs = 2
  /\ pc = "done"
  /\ finalVerdict = "fail"
  /\ \E k \in 1..Len(log) : log[k].ev = "report" /\ log[k].verdict = "pass"
  /\ \A k \in 1..Len(log) : IsResult(log[k]) => log[k].verdict \notin Bad

\* C8: when run() has completed, finalVerdict is 'fail' iff a result with verdict
\* 'fail' or 'error' was produced and handed to #report, and the completion
\* notifications carry that verdict.
C8_FinalVerdict ==
  pc = "done" =>
    /\ finalVerdict = (IF handed \cap Bad # {} THEN "fail" ELSE "pass")
    /\ \A k \in 1..Len(log) : log[k].ev \in {"done", "complete"} => log[k].verdict = finalVerdict
    /\ \E k \in 1..Len(log) : log[k].ev = "complete"

\* A completed run whose only failure is a grouped test that timed out.
C8_Witness ==
  /\ pc = "done"
  /\ finalVerdict = "fail"
  /\ \E i \in 1..Len(queue) : InsideGroup(i) /\ promises[i].timedOut
  /\ \A i \in 1..Len(queue) : promises[i].res \in Bad => promises[i].timedOut

C10_Progress ==
  /\ Draining =>
       /\ log[1] = Ev("progress", 0, "none", Len(queue))
       /\ Len(Progress) = index
       /\ \A k \in 1..Len(Progress) :
            Progress[k].idx = k - 1 /\ Progress[k].total = Len(queue)
  /\ pc = "done" => Progress[Len(Progress)] = Ev("progress", Len(queue), "none", Len(queue))

\* A completed run over a queue with a non-empty group: the markers were counted.
C10_Witness ==
  /\ pc = "done"
  /\ Len(queue) >= 4
  /\ \E i \in 1..Len(queue) : InsideGroup(i)

\* C11: a progress notification for a test task is in the log only if that test has
\* resolved: its result promise is no longer pending (ungrouped and grouped alike).
C11_ProgressAfterResolved ==
  \A k \in 1..Len(log) :
    (log[k].ev = "progress" /\ log[k].idx \in 1..Len(queue) /\ queue[log[k].idx].type = "test")
      => promises[log[k].idx].res # "pending"

\* C12: run() never rejects to its caller, whatever was declared: no state has run()
\* settled with a rejection.
C12_RunNeverRejects == pc # "rejected"

\* C13: a test whose operation has not settled gets its result once the timer of the
\* effective duration (the payload's timeout option if given, else the runner's
\* timeout) has fired: verdict 'error' with the timeout error naming that duration;
\* the timer does not fire before that duration has elapsed; a pending result always
\* has its timer armed, and under SpecExecuteTestLive it does not stay pending.
C13_TimeoutResult ==
  LET effective == IF payload.timeout = {} THEN timeout ELSE CHOOSE d \in payload.timeout : TRUE
  IN /\ []((timer.state = "fired" /\ execution.state = "pending") =>
             /\ result = [verdict |-> "error", result |-> TimeoutError(effective)]
             /\ timer.duration = effective
             /\ now >= timer.deadline
             /\ timer.deadline >= effective)
     /\ [](result = Pending => (timer.state = "armed" /\ timer.duration = effective))
     /\ (result = Pending) ~> (result # Pending)

\* The operation never settled and the test's own timeout, longer than the runner's,
\* has produced the result.
C13_Witness ==
  /\ payload.timeout = {2}
  /\ timeout = 1
  /\ execution.state = "pending"
  /\ timer.state = "fired"
  /\ result = [verdict |-> "error", result |-> "Test timed out after 2ms"]

\* C14: a test whose operation throws when invoked, or whose pending value rejects
\* while the race is open, has verdict 'error' with the thrown object / the rejection
\* reason as actual value and is reported as such; the run goes on: it rejects only
\* for a rejected definition chain, and when it has completed every later task has
\* been executed and reported.
C14_ThrowAndRejectAreErrors ==
  /\ \A i \in 1..Len(queue) :
       /\ (queue[i].type = "test" /\ queue[i].verdict = "none" /\ queue[i].testFn = "throw"
             /\ promises[i].res # "none")
            => (promises[i].res = "error" /\ promises[i].result = "thrown")
       /\ promises[i].result = "reason"
            => (promises[i].res = "error" /\ queue[i].testFn = "async" /\ ~promises[i].timedOut)
       /\ promises[i].result \in {"thrown", "reason"} =>
            /\ \A k \in ResultEvents(i) : log[k] = Ev("report", i, "error", 0)
            /\ pc = "done" =>
                 /\ ResultEvents(i) # {}
                 /\ \A j \in (i + 1)..Len(queue) :
                      IsTask(j) => (promises[j].res \notin {"none", "pending"}
                                    /\ ResultEvents(j) # {})
  /\ pc = "rejected" => chainState = "rejected"

\* A completed run in which a test threw and a later test rejected; both are reported.
C14_Witness ==
  /\ pc = "done"
  /\ \E i, j \in 1..Len(queue) :
       /\ i < j
       /\ promises[i].result = "thrown"
       /\ promises[j].result = "reason"
       /\ ResultEvents(i) # {}
       /\ ResultEvents(j) # {}

\* C15: a test without predetermined verdict whose operation has settled with a
\* value v while the timer has not fired has verdict 'pass' if equal(v, expect) and
\* 'fail' otherwise, with v as the actual value, whatever kind of value v is.
C15_VerdictFromEquality ==
  (payload.verdict = "none" /\ execution.state = "fulfilled" /\ timer.state = "armed") =>
    result = [verdict |-> IF equalValues(execution.result, payload.expect) THEN "pass" ELSE "fail",
              result |-> execution.result]

\* C16: a payload with a predetermined verdict is never executed: testFn is not
\* called, no timer is set, no execution is started, and the result is that verdict,
\* with 'Not executed' as actual value for 'skip' and the carried error object (testFn)
\* for 'error'.
C16_PredeterminedNotExecuted ==
  payload.verdict # "none" =>
    /\ invoked = 0
    /\ timer = NoTimer
    /\ execution = NoExecution
    /\ result # NotCalled =>
         result = [verdict |-> payload.verdict,
                   result |-> IF payload.verdict = "skip" THEN "Not executed" ELSE payload.testFn]

\* A skipped test whose operation is a function that would throw has got its result.
C16_Witness ==
  /\ payload = skipPayload("throws", "v1")
  /\ result = [verdict |-> "skip", result |-> "Not executed"]
  /\ now > 0

\* C17: in a run with onlyFailed = true no 'pass' result is delivered to the
\* reporter; only 'pass' results are held back, so every info message and every
\* 'fail' and 'error' result handed to #report is delivered; and the verdicts are what
\* they are without suppression: a group's verdict is 'fail' iff a member failed or
\* errored, and the final verdict is 'fail' iff such a result was handed to #report.
C17_OnlyFailedSuppressesPass ==
  (onlyFailed /\ Draining) =>
    /\ \A k \in 1..Len(log) :
         /\ log[k].ev = "report" => log[k].verdict # "pass"
         /\ log[k].ev = "suppressed" => log[k].verdict = "pass"
         /\ log[k].ev = "groupEnd" =>
              log[k].verdict = IF \E i \in Members(log[k].idx) : promises[i].res \in Bad
                               THEN "fail" ELSE "pass"
    /\ pc = "done" =>
         /\ \A i \in 1..Len(queue) :
              (IsTask(i) /\ promises[i].res \in {"info", "fail", "error"}) =>
                \E k \in 1..Len(log) : log[k] = Ev("report", i, promises[i].res, 0)
         /\ finalVerdict = (IF handed \cap Bad # {} THEN "fail" ELSE "pass")

\* A completed run with onlyFailed = true in which a passed test was held back and an
\* info message delivered.
C17_Witness ==
  /\ onlyFailed
  /\ pc = "done"
  /\ \E k \in 1..Len(log) : log[k].ev = "suppressed"
  /\ \E k \in 1..Len(log) : log[k].ev = "report" /\ log[k].verdict = "info"

\* C18: in a run with onlyFailed = true only results with verdict 'fail' or 'error',
\* and info messages, are delivered to the reporter: skipped tests are held back like
\* passed ones.
C18_OnlyFailedSuppressesSkip ==
  (onlyFailed /\ Draining) =>
    \A k \in 1..Len(log) : log[k].ev = "report" => log[k].verdict \in {"fail", "error", "info"}

\* C19: the queue holds the groups in the order of their group() calls, each as a
\* group_start followed by its group_end with no other marker between them; an entry
\* declared by a group's body lies between that group's markers, and a task between
\* the markers of a group was declared by that group's body; a body runs only while
\* every earlier group is closed; when run() drains, every group() call is in the
\* queue, closed. (A run drains only if no body has thrown or rejected.)
C19_GroupsInCallOrder ==
  LET B == SelectSeq(queue, IsBracket)
  IN /\ \A k \in 1..Len(B) :
          /\ B[k].type = (IF k % 2 = 1 THEN "group_start" ELSE "group_end")
          /\ B[k].by = (k + 1) \div 2
          /\ B[k].type = "group_start" => B[k].gist = B[k].by
     /\ \A i \in 1..Len(queue) :
          (IsTask(i) /\ queue[i].by # 0) =>
            (InsideGroup(i) /\ queue[LastBracket(i)].gist = queue[i].by)
     /\ chainState = "body" =>
          (Len(B) % 2 = 1 /\ B[Len(B)].gist = Head(definitionChain))
     /\ Draining =>
          /\ chainState = "idle"
          /\ Len(B) = 2 * groupCalls
          /\ \A i \in 1..Len(queue) :
               InsideGroup(i) => queue[i].by = queue[LastBracket(i)].gist

\* run() is draining a queue with two groups, each with a task of its own body, where
\* the second group() call was issued before the first body had declared its task.
C19_Witness ==
  /\ pc = "loop"
  /\ groupCalls = 2
  /\ \E i, j \in 1..Len(queue) :
       /\ IsTask(i)
       /\ IsTask(j)
       /\ queue[i].by = 1
       /\ queue[j].by = 2

\* C20: results and group brackets reach the reporter in the program order of the
\* calls: the result of a task declared outside any group body after the g-th group()
\* call is delivered after the groupStart of that group (and so after its results).
C20_DefinitionOrderAcrossGroups ==
  \A k \in 1..Len(log) :
    (IsResult(log[k]) /\ queue[log[k].idx].by = 0) =>
      \A g \in 1..queue[log[k].idx].after :
        \E s \in 1..(k - 1) : log[s].ev = "groupStart" /\ log[s].idx = g

\* The last groupStart / groupEnd in the log before position k, 0 if there is none.
LastBracketEvent(k) ==
  LET S == {s \in 1..(k - 1) : log[s].ev \in {"groupStart", "groupEnd"}}
  IN IF S = {} THEN 0 ELSE CHOOSE s \in S : \A r \in S : r <= s

\* C21: groupStart and groupEnd alternate in the log; a group member's result is
\* delivered inside the bracket opened by its own group's groupStart(gist), an
\* ungrouped task's result outside any bracket; the results between a groupStart and
\* its groupEnd are exactly the members of that group, each once; and outside a group
\* the buffer is empty.
C21_GroupBrackets ==
  /\ \A k \in 1..Len(log) :
       LET b == LastBracketEvent(k)
       IN /\ log[k].ev = "groupStart" => (b = 0 \/ log[b].ev = "groupEnd")
          /\ log[k].ev = "groupEnd" =>
               /\ b # 0
               /\ log[b].ev = "groupStart"
               /\ {log[s].idx : s \in {r \in (b + 1)..(k - 1) : IsResult(log[r])}}
                    = Members(log[k].idx)
               /\ \A i \in Members(log[k].idx) :
                    Cardinality({r \in (b + 1)..(k - 1) : IsResult(log[r]) /\ log[r].idx = i}) = 1
          /\ (IsResult(log[k]) /\ InsideGroup(log[k].idx)) =>
               /\ b # 0
               /\ log[b] = Ev("groupStart", queue[LastBracket(log[k].idx)].gist, "none", 0)
               /\ \E e \in (k + 1)..Len(log) : log[e].ev = "groupEnd"
          /\ (IsResult(log[k]) /\ Ungrouped(log[k].idx)) => (b = 0 \/ log[b].ev = "groupEnd")
  /\ ~inGroup => promiseGroups = <<>>

\* A completed run over two groups with one member each, both reported.
C21_Witness ==
  /\ pc = "done"
  /\ \E i, j \in 1..Len(queue) :
       /\ InsideGroup(i)
       /\ InsideGroup(j)
       /\ ~SameGroup(i, j)
       /\ ResultEvents(i) # {}
       /\ ResultEvents(j) # {}

\* The invocations obj[methodName](...) the program made while the method slot held
\* the wrapper of the k-th spy.
InvocationsOf(k) == SelectSeq(history, LAMBDA e : e.op = "call" /\ e.target = wrapper(k))

\* Another spy has been installed over the k-th one.
Covered(k) == \E n \in 1..Len(history) : history[n].op = "spyOn" /\ history[n].target = wrapper(k)

InstalledOver(k) ==
  SelectSeq(history, LAMBDA e : e.op = "spyOn" /\ isCallable(e.target))[k].target

\* C23: right after restore() on a spy the method slot holds the very function it
\* held immediately before that spy was installed, whatever was invoked or overridden
\* in between; restore() changes nothing but the slot; and a second restore() on the
\* same spy right after the first changes nothing at all.
C23_RestoreReinstatesOriginal ==
  /\ [](last.op = "restore" => method = InstalledOver(last.spy))
  /\ [][last'.op = "restore" => (spies' = spies /\ returned' = returned)]_vars
  /\ [][(last.op = "restore" /\ last'.op = "restore" /\ last'.spy = last.spy)
          => (method' = method /\ spies' = spies /\ returned' = returned)]_vars

\* A spy was given another behaviour and invoked, then restored twice: the method
\* the object came with is back in the slot.
C23_Witness ==
  /\ Len(history) = 5
  /\ history[2].op = "override"
  /\ history[3].op = "call"
  /\ history[4].op = "restore"
  /\ history[4].target = wrapper(1)
  /\ history[5].op = "restore"
  /\ last.spy = 1
  /\ spies[1].callCount = 1
  /\ method = originalFn

\* C24: a spyOn call throws exactly when the method slot does not hold a function,
\* and then leaves the slot and the existing spies as they were and creates no spy;
\* otherwise it creates one spy and installs its wrapper.
C24_SpyOnRejectsNonFunction ==
  [][last'.op = "spyOn" =>
       IF isCallable(method)
       THEN /\ ~last'.threw
            /\ Len(spies') = Len(spies) + 1
            /\ last'.spy = Len(spies')
            /\ method' = wrapper(Len(spies'))
       ELSE /\ last'.threw
            /\ last'.spy = 0
            /\ method' = method
            /\ spies' = spies]_vars

\* spyOn has thrown on a slot that holds no function, with an earlier spy in existence.
C24_Witness ==
  /\ last.op = "spyOn"
  /\ last.threw
  /\ method = notAFunction
  /\ Len(spies) = 1

\* The implementation the program has selected for the k-th spy: the one given by its
\* most recent runs/returns/resolves/rejects call, or, if there is none, what the
\* method slot held when the spy was installed.
Selected(k) ==
  LET O == {n \in 1..Len(history) : history[n].op = "override" /\ history[n].spy = k}
  IN IF O = {} THEN InstalledOver(k)
     ELSE history[CHOOSE n \in O : \A r \in O : r <= n].f

\* C25: the active implementation of a spy is the selected one, and an invocation
\* through the spy's wrapper returns or throws what that implementation does; an
\* override call returns the handle of the spy it was called on, does not throw, and
\* changes neither the method slot nor any spy's callCount and calls, nor another
\* spy's implementation.
C25_OneActiveImplementation ==
  /\ [](\A k \in 1..Len(spies) : spies[k].currentImplementation = Selected(k))
  /\ [](\A k \in 1..Len(spies) :
          (last.op = "call" /\ history[Len(history)].target = wrapper(k)
             /\ Selected(k).kind # "wrapper")
            => returned = applyFn(Selected(k), history[Len(history)].args))
  /\ [][last'.op \in {"runs", "returns", "resolves", "rejects"} =>
          /\ last'.spy = history'[Len(history')].spy
          /\ ~last'.threw
          /\ method' = method
          /\ Len(spies') = Len(spies)
          /\ \A k \in 1..Len(spies) :
               /\ spies'[k].callCount = spies[k].callCount
               /\ spies'[k].calls = spies[k].calls
               /\ spies'[k].originalMethod = spies[k].originalMethod
               /\ k # last'.spy => spies'[k].currentImplementation = spies[k].currentImplementation]_vars

\* A spy was invoked with the original behaviour, then overridden twice and invoked
\* again: the call returned what the later override set, and both calls are recorded.
C25_Witness ==
  /\ Len(history) = 5
  /\ history[2].op = "call"
  /\ history[3].op = "override"
  /\ history[3].f = Fn("resolves", 1)
  /\ history[4].op = "override"
  /\ history[4].f = Fn("returns", 2)
  /\ history[5].op = "call"
  /\ spies[1].callCount = 2
  /\ returned = [how |-> "return", promise |-> "none", by |-> "returns", v |-> 2, args |-> <<>>]

\* The call equal(objA, objB) has returned or thrown.
Called == outcome # NoOutcome

\* C26: equal returns a boolean for every pair of finite object graphs; it never runs
\* into unbounded recursion, whatever the shapes of the cycles on the two sides.
C26_EqualTerminates == Called => outcome \in {"true", "false"}

\* C27: equal(a, b) and equal(b, a) have the same outcome.
C27_EqualSymmetric == Called => outcome = equalOn(heap, objB, objA)

\* a === b for scalars, spelled out: same type, same value, and not NaN.
Identical(x, y) == x.t = y.t /\ x.v = y.v /\ x.t # "NaN"

\* C28: on two primitive values equal returns what a === b returns.
C28_PrimitivesByIdentity ==
  (Called /\ objA \in Primitives /\ objB \in Primitives)
    => outcome = (IF Identical(objA, objB) THEN "true" ELSE "false")

\* equal has found 1 and '1' different.
C28_Witness ==
  /\ objA = Number(1)
  /\ objB = String(1)
  /\ outcome = "false"

\* The property names of an object, and those that hold a reference.
Keys(o) == {o.keys[i] : i \in 1..Len(o.keys)}
RefKeys(o) == {k \in Keys(o) : get(o, k).t = "object"}

\* The pairs of objects that correspond when the two graphs are walked in step from the
\* pair R, following equally named references.
RECURSIVE Corresponding(_, _)
Corresponding(h, R) ==
  LET S == R \cup UNION {{<<get(h[p[1]], k).v, get(h[p[2]], k).v>> :
                            k \in RefKeys(h[p[1]]) \cap RefKeys(h[p[2]])} : p \in R}
  IN IF S = R THEN R ELSE Corresponding(h, S)

\* The objects reachable from those of S by following references.
RECURSIVE Reachable(_, _)
Reachable(h, S) ==
  LET T == S \cup UNION {{get(h[n], k).v : k \in RefKeys(h[n])} : n \in S}
  IN IF T = S THEN S ELSE Reachable(h, T)

\* The graphs under x and y are made of plain objects and have identical shape: the
\* correspondence is one-to-one, and corresponding objects have the same property names,
\* holding references in the same places.
SameShape(h, x, y) ==
  LET R == Corresponding(h, {<<x.v, y.v>>})
  IN /\ \A p, q \in R : (p[1] = q[1]) <=> (p[2] = q[2])
     /\ \A p \in R :
          /\ h[p[1]].proto = "Object"
          /\ h[p[2]].proto = "Object"
          /\ Keys(h[p[1]]) = Keys(h[p[2]])
          /\ RefKeys(h[p[1]]) = RefKeys(h[p[2]])

\* The graph under x holds a cycle.
Cyclic(h, x) ==
  \E n \in Reachable(h, {x.v}) :
    n \in Reachable(h, {get(h[n], k).v : k \in RefKeys(h[n])})

\* All corresponding leaf scalars are identical.
SameLeaves(h, x, y) ==
  \A p \in Corresponding(h, {<<x.v, y.v>>}) :
    \A k \in Keys(h[p[1]]) \ RefKeys(h[p[1]]) : Identical(get(h[p[1]], k), get(h[p[2]], k))

\* C29: on two cyclic graphs of identical shape equal returns true if all corresponding
\* leaf scalars are identical and false if some corresponding leaf scalars differ.
C29_CyclicSameShape ==
  (Called /\ objA.t = "object" /\ objB.t = "object"
     /\ SameShape(heap, objA, objB) /\ Cyclic(heap, objA))
    => outcome = (IF SameLeaves(heap, objA, objB) THEN "true" ELSE "false")

\* Two separate graphs, each a chain of one object into a ring of two, that differ only
\* in the leaf of the ring's last object, were found different.
C29_Witness ==
  /\ Len(heap) = 6
  /\ objB = Ref(4)
  /\ SameShape(heap, objA, objB)
  /\ Cyclic(heap, objA)
  /\ \A n \in 1..2 : get(heap[n], "v") = get(heap[n + 3], "v")
  /\ get(heap[3], "v") # get(heap[6], "v")
  /\ get(heap[3], "next") = Ref(2)
  /\ outcome = "false"

\* The orders in which the members of the sequence q can be arranged.
Reorderings(q) ==
  {r \in [1..Len(q) -> {q[i] : i \in 1..Len(q)}] : \A i, j \in 1..Len(q) : i # j => r[i] # r[j]}

\* Each member of s can be paired with a member of t of its own that equal finds equal.
Matched(h, s, t) ==
  /\ Len(s) = Len(t)
  /\ \E r \in Reorderings(t) : \A i \in 1..Len(s) : equalOn(h, s[i], r[i]) = "true"

\* C30: equal on two Sets is true exactly when they have the same size and their
\* members can be matched one to one, and its outcome is the same for every insertion
\* order of the two Sets.
C30_SetMatching ==
  (Called /\ objA.t = "object" /\ objB.t = "object"
     /\ heap[objA.v].proto = "Set" /\ heap[objB.v].proto = "Set")
    => /\ (outcome = "true") <=> Matched(heap, heap[objA.v].vals, heap[objB.v].vals)
       /\ \A s \in Reorderings(heap[objA.v].vals) : \A t \in Reorderings(heap[objB.v].vals) :
            equalOn([heap EXCEPT ![objA.v].vals = s, ![objB.v].vals = t], objA, objB) = outcome

\* The container X holds undefined at position i, and Y is X with that key or slot
\* absent: the entry removed, or, in an Array, the slot left empty.
AbsentIn(X, Y, i) ==
  /\ X.proto = Y.proto
  /\ X.proto \in {"Object", "Map", "Array"}
  /\ X.vals[i] = undefined
  /\ \/ /\ Len(Y.vals) = Len(X.vals) - 1
        /\ Len(Y.keys) = (IF X.proto = "Array" THEN 0 ELSE Len(X.keys) - 1)
        /\ X.proto = "Array" => i = Len(X.vals)
        /\ \A j \in 1..Len(Y.vals) :
             /\ Y.vals[j] = X.vals[IF j < i THEN j ELSE j + 1]
             /\ X.proto # "Array" => Y.keys[j] = X.keys[IF j < i THEN j ELSE j + 1]
     \/ /\ X.proto = "Array"
        /\ Len(Y.vals) = Len(X.vals)
        /\ Y.vals[i] = hole
        /\ \A j \in 1..Len(Y.vals) : j # i => Y.vals[j] = X.vals[j]

\* C31: a container that holds undefined under a key or index is not equal to the
\* otherwise identical container in which that key or slot is absent, whichever of the
\* two is the first argument.
C31_UndefinedIsNotAbsent ==
  (Called /\ objA.t = "object" /\ objB.t = "object"
     /\ \E i \in 1..MaxSetSize :
          \/ i <= Len(heap[objA.v].vals) /\ AbsentIn(heap[objA.v], heap[objB.v], i)
          \/ i <= Len(heap[objB.v].vals) /\ AbsentIn(heap[objB.v], heap[objA.v], i))
    => outcome = "false"

\* The bytes a buffer or view stands for.
Bytes(h, o) ==
  IF o.proto = "ArrayBuffer" THEN o.vals
  ELSE [i \in 1..get(o, "byteLength").v |-> h[get(o, "buffer").v].vals[get(o, "byteOffset").v + i]]

\* C32: on two ArrayBuffers, or two views of the same kind, equal returns true exactly
\* when they have the same number of bytes and the same byte at every offset.
C32_BuffersByteByByte ==
  (Called /\ objA.t = "object" /\ objB.t = "object"
     /\ heap[objA.v].proto = heap[objB.v].proto
     /\ heap[objA.v].proto \in {"ArrayBuffer", "Uint8Array", "DataView"})
    => outcome = (IF Bytes(heap, heap[objA.v]) = Bytes(heap, heap[objB.v]) THEN "true" ELSE "false")

\* The value cannot be resolved to a destination: a selector that matches nothing in the
\* document, or a value that is neither 'console', a string nor an element.
Unresolvable(value) ==
  \/ value.kind = "selector" /\ Target("element", value.id) \notin document
  \/ value.kind = "other"

Handled(i) == IsTask(i) /\ queue[i].verdict = "error" /\ queue[i].testFn = "errorObject"

WhenSettled == phase \in {"resolved", "rejected"}

BothRestored ==
  /\ Len(spies) = 2
  /\ spies[1].originalMethod = originalFn
  /\ spies[2].originalMethod = wrapper(1)
  /\ \A n \in 1..Len(history) : history[n].op # "assign"
  /\ \A k \in 1..2 : \E n \in 1..Len(history) : history[n].op = "restore" /\ history[n].spy = k

\* C36: once both of two stacked spies have been restored, in either order, the slot
\* holds the original method, and an invocation is recorded by neither spy.
C36_RestoreBothInAnyOrder ==
  /\ [](BothRestored => method = originalFn)
  /\ [][(BothRestored /\ last'.op = "call" /\ last'.seq # last.seq) =>
          \A k \in 1..2 : spies'[k].callCount = spies[k].callCount]_vars

\* The operation of task i settles in this step after its timer has fired.
OrphanSettles(i) ==
  /\ i \in 1..Len(promises)
  /\ promises[i].timedOut
  /\ promises[i].op = "running"
  /\ promises'[i].op = "done"

\* C37: when the operation of a timed-out task settles later, the task's result stays
\* the timeout error, nothing is reported, and the group verdict and the final verdict
\* stay as they are; a timed-out task has at most one result in a run, with verdict
\* 'error'.
C37_OrphanSettlementIgnored ==
  /\ [][\A i \in 1..MaxTasks + 2 * MaxGroups : OrphanSettles(i) =>
          /\ promises'[i].res = "error"
          /\ promises'[i].result = "timeoutError"
          /\ promises'[i].timedOut
          /\ log' = log
          /\ settled' = settled
          /\ currentGroupVerdict' = currentGroupVerdict
          /\ finalVerdict' = finalVerdict]_vars
  /\ [](\A i \in 1..Len(promises) : promises[i].timedOut =>
          /\ promises[i].res = "error"
          /\ Draining =>
               /\ Cardinality(ResultEvents(i)) <= 1
               /\ \A k \in ResultEvents(i) : log[k].ev = "report" /\ log[k].verdict = "error")

\* A run has completed in which a grouped task was reported with a timeout error and
\* its operation settled afterwards.
C37_Witness ==
  /\ pc = "done"
  /\ \E i \in 1..Len(promises) :
       /\ InsideGroup(i)
       /\ promises[i].timedOut
       /\ promises[i].op = "done"
       /\ ResultEvents(i) # {}
       /\ settled[Len(settled)] = i

\* The objects a container refers to, and those that can be reached from the objects of S.
Refs(o) ==
  {o.vals[i].v : i \in {j \in 1..Len(o.vals) : o.vals[j].t = "object"}}
RECURSIVE Within(_, _)
Within(h, S) ==
  LET T == S \cup UNION {Refs(h[n]) : n \in S}
  IN IF T = S THEN S ELSE Within(h, T)

\* The value x is a scalar, or a plain object, Array, Map or Set under which only such
\* objects and no cycle can be reached.
AcyclicValue(h, x) ==
  x.t = "object" =>
    \A n \in Within(h, {x.v}) :
      /\ h[n].proto \in {"Object", "Array", "Map", "Set"}
      /\ n \notin Within(h, Refs(h[n]))

\* Reference deep equality of acyclic values, without any memo: scalars by identity,
\* containers of the same kind entry by entry, Sets by a one-to-one matching of members.
RECURSIVE DeepEqual(_, _, _)
DeepEqual(h, x, y) ==
  IF x.t # "object" \/ y.t # "object" THEN Identical(x, y)
  ELSE IF x = y THEN TRUE
  ELSE LET X == h[x.v]
           Y == h[y.v]
       IN /\ X.proto = Y.proto
          /\ Len(X.vals) = Len(Y.vals)
          /\ CASE X.proto = "Array" ->
                    \A i \in 1..Len(X.vals) : DeepEqual(h, elementAt(X, i), elementAt(Y, i))
               [] X.proto = "Set" ->
                    \E r \in Reorderings(Y.vals) :
                      \A i \in 1..Len(X.vals) : DeepEqual(h, X.vals[i], r[i])
               [] OTHER ->
                    \A i \in 1..Len(X.keys) :
                      has(Y, X.keys[i]) /\ DeepEqual(h, X.vals[i], get(Y, X.keys[i]))

\* C38: on acyclic values, with or without shared sub-objects, equal returns true only
\* if the two values are deeply equal.
C38_TrueOnlyIfDeepEqual ==
  (Called /\ AcyclicValue(heap, objA) /\ AcyclicValue(heap, objB) /\ outcome = "true")
    => DeepEqual(heap, objA, objB)

\* C39: with timers that fire and group bodies that settle, every call of run() leads to
\* the completion notification, whether or not any operation of a test ever settles.
C39_RunCompletes == (pc = "awaitChain") ~> (pc = "done")

\* C40: whatever the options of test(gist, operation, expected, options) hold, once the
\* executor has been called on the task the operation passed as second argument has been
\* resolved (called once if it is a function), the verdict is 'pass', 'fail' or 'error' as
\* soon as there is one, and gist and expected value of the result are the first and the
\* third argument.
C40_OptionsLeaveTheTaskAlone ==
  (declaration # NoDeclaration /\ result # NotCalled) =>
    /\ payload.testFn = declaration.testFn
    /\ execution # NoExecution
    /\ isFunction(declaration.testFn) => invoked = 1
    /\ resultObject.verdict \in {"pending", "pass", "fail", "error"}
    /\ resultObject.gist = declaration.gist
    /\ resultObject.expect = declaration.expect
====
